---- MODULE Spec2Model ----
(***************************************************************************)
(* tiny-sip: the transaction layer, the dialog layer, the Digest           *)
(* authenticator and the user-agent orchestrator of src/tinysip/fsm.py     *)
(* and src/tinysip/auth.py, as one state machine.                          *)
(*                                                                         *)
(* Scheduling: one asyncio event loop.  A handler runs without             *)
(* interruption up to its next real suspension, which in this code is      *)
(* asyncio.sleep only: the timer tasks (fsm.py:252-257) and the pause of   *)
(* SIPUserAgent.on_request_received (fsm.py:1019).  The transport's send   *)
(* completes without yielding (the UDP transport calls sendto,             *)
(* transport.py:277).  Tasks made with asyncio.create_task (_cleanup,      *)
(* fsm.py:245) run later, as steps of their own.                           *)
(*                                                                         *)
(* Time: milliseconds.  Every transaction carries the remaining time of    *)
(* each of its timers; Advance lets time pass up to the next deadline, and *)
(* only when no task is ready to run, as the loop does.                    *)
(***************************************************************************)
EXTENDS Integers, Sequences, FiniteSets, TLC

\* ------------------------------------------------------------------ bounds
MaxTx == 2          \* transaction objects created in one behaviour
MaxTxAlone == 1     \* the same, where one transaction is followed alone
MaxTxAuth == 3      \* the same, when no time passes
MaxTxDialog == 3    \* the same, for one dialog and the BYEs sent in it
MaxChain == 4       \* the same, for a request and the re-issues of it
MaxBusy == 1        \* transactions with a timer or a task pending when the
                    \* application or a peer begins another one
MaxDrop == 9        \* sends the lossy transport may drop (the first k)
NPeerBranch == 1    \* distinct Via branches chosen by peers
NPeerTag == 2       \* distinct tags chosen by peers

\* ------------------------------------------------------- program constants
T1 == 500
T2 == 4000
T4 == 5000
TIMER_A == T1
TIMER_B == 64 * T1
TIMER_D == 32000
TIMER_E == T1
TIMER_F == 64 * T1
TIMER_G == T1
TIMER_H == 64 * T1
TIMER_I == T4
TIMER_J == 64 * T1
TIMER_K == T4
TIMER_L == 64 * T1
max_retransmissions == 7
HandlerSleep == 1000

TimerType == {"A", "B", "D", "E", "F", "G", "H", "I", "J", "K", "L"}
Off == -1           \* the timer is not in _active_timers
Done == -2          \* its task has run to the end and is still in _active_timers

TxState == {"INITIAL", "TRYING", "PROCEEDING", "COMPLETED", "ACCEPTED",
            "CONFIRMED", "TERMINATED"}
TxKind == {"INVITE_CLIENT", "INVITE_SERVER", "NON_INVITE_CLIENT", "NON_INVITE_SERVER"}
ClientKinds == {"INVITE_CLIENT", "NON_INVITE_CLIENT"}
ServerKinds == {"INVITE_SERVER", "NON_INVITE_SERVER"}
DialogState == {"INITIAL", "EARLY", "CONFIRMED", "TERMINATED"}

\* ---------------------------------------------------------------- messages
\* Identifiers the UA draws from uuid4 are fresh: the n-th transaction object
\* gets the positive number n.  Identifiers chosen by peers are negative.
\* 0 stands for None (no tag, no value).
PeerBranches == {0 - k : k \in 1..NPeerBranch}
PeerTags == {0 - k : k \in 1..NPeerTag}
PeerFromTags == {-1}
PeerCallIds == {-1}
Realms == {"r1"}
Nonces == {"n1", "n2"}
Bodies == {"sdp"}
TargetUri == "sip:bob@example.test"
LocalUri == "sip:alice@example.test"

NoMsg == [type |-> "none"]
NoAuth == [realm |-> "none", nonce |-> "none", nc |-> 0]

Request(method, uri, branch, from, fromTag, to, toTag, callId, cseq, body) ==
    [type |-> "request", method |-> method, uri |-> uri, branch |-> branch,
     from |-> from, fromTag |-> fromTag, to |-> to, toTag |-> toTag,
     callId |-> callId, cseq |-> cseq, cseqMethod |-> method, body |-> body,
     authorization |-> NoAuth, proxy_authorization |-> NoAuth]

\* realm, nonce, algorithm: the parameters of the challenge header that belongs
\* to the status code (WWW-Authenticate for 401, Proxy-Authenticate for 407),
\* "none" without that header.
Response(status, branch, toTag, realm, nonce, algorithm) ==
    [type |-> "response", status |-> status, branch |-> branch, toTag |-> toTag,
     realm |-> realm, nonce |-> nonce, algorithm |-> algorithm]

\* _hash_function knows the MD5 and the SHA-256 families.
Supported == {"MD5", "MD5-SESS", "SHA-256", "SHA-256-SESS"}

\* The nonce and the algorithm of the challenges peers send.
ChallengeParams == {<<n, "MD5">> : n \in Nonces} \cup {<<"n1", "SHA-512">>}

StatusCodes == {180, 200, 401, 407, 486}

VARIABLES
    limit,          \* transaction objects this behaviour may create
    dropFirst,      \* the transport loses the first dropFirst datagrams
    timersGiven,    \* SIPUserAgent was constructed with a timers argument
    t2,             \* T2 of that SIPTimers object
    sendFails,      \* the transport's send_message raises
    loggerOn,       \* the warnings and errors of the loggers are recorded
    txs,            \* every transaction object made so far, in creation order
    table,          \* TransactionManager._transactions: branch -> index in txs
    dialogs,        \* DialogManager._dialogs: <<call_id, local_tag>> -> dialog
    credentials,    \* SIPDigestAuthentication.credentials (its realms)
    nonce_count,    \* SIPDigestAuthentication.nonce_count
    dropLeft,       \* sends the transport will still drop
    log,            \* what the last step sent and which UA callbacks it made, in order
    original,       \* a SIPMessage object an application made
    wire,           \* its encoding, once encode was called
    parsed,         \* the SIPMessage object parse made of the encoding
    local_offer,    \* the SDPParsed of the offer the application sent
    remote_answer,  \* the SDPParsed of the answer of the peer
    negotiated      \* the list negotiate_from_offer_answer returned for them (out)

vars == <<limit, dropFirst, timersGiven, t2, sendFails, loggerOn, txs, table, dialogs,
          credentials, nonce_count, dropLeft, log, original, wire, parsed,
          local_offer, remote_answer, negotiated>>

\* The mutable state as one value, so that a handler is a function of it.
Cur == [txs |-> txs, table |-> table, dialogs |-> dialogs, credentials |-> credentials,
        nonce_count |-> nonce_count, dropLeft |-> dropLeft, log |-> <<>>]

Apply(s) ==
    /\ txs' = s.txs
    /\ table' = s.table
    /\ dialogs' = s.dialogs
    /\ credentials' = s.credentials
    /\ nonce_count' = s.nonce_count
    /\ dropLeft' = s.dropLeft
    /\ log' = s.log
    /\ UNCHANGED <<limit, dropFirst, timersGiven, t2, sendFails, loggerOn, original, wire, parsed,
                   local_offer, remote_answer, negotiated>>

WithTx(s, o, t) == [s EXCEPT !.txs[o] = t]

\* dict.get: 0 for None.
Lookup(tbl, tx_id) == IF tx_id \in DOMAIN tbl THEN tbl[tx_id] ELSE 0

\* ------------------------------------------------------------- transaction
\* SIPTransaction.__init__.  The fields after cleanups record what the
\* transaction did and what it reported to the UA:
\*   delivered  a message it sent reached the peer
\*   nfinal, nreq   on_final_response / on_request_received calls
\*   timeouts   timer types on_timeout was called with
\*   origin     the challenged transaction this one re-issues (0: none)
SIPTransaction(tx_id, kind) ==
    [branch |-> tx_id, kind |-> kind, state |-> "INITIAL",
     request |-> NoMsg, response |-> NoMsg,
     timers |-> [t \in TimerType |-> Off],
     rc |-> 0, cleanups |-> 0, sleep |-> Off,
     delivered |-> FALSE, nfinal |-> 0, nreq |-> 0,
     timeouts |-> {}, origin |-> 0]

\* The entry of a transaction is removed at its transition to TERMINATED,
\* not by the task the transition makes.
_transition_to_removed(s, o, new_state) ==
    LET t == s.txs[o]
        s1 == WithTx(s, o, [t EXCEPT !.state = new_state,
                                     !.cleanups = IF new_state = "TERMINATED"
                                                  THEN @ + 1 ELSE @])
    IN IF new_state = "TERMINATED"
       THEN [s1 EXCEPT !.table = [b \in DOMAIN @ \ {t.branch} |-> @[b]]]
       ELSE s1

_transition_to(s, o, new_state) ==
    LET t == s.txs[o] IN
    WithTx(s, o, [t EXCEPT !.state = new_state,
                           !.cleanups = IF new_state = "TERMINATED" THEN @ + 1 ELSE @])

_start_timer(s, o, timer_type, duration) ==
    [s EXCEPT !.txs[o].timers[timer_type] = duration]

_cancel_timer_kept(s, o, timer_type) == s

_cancel_timer(s, o, timer_type) ==
    [s EXCEPT !.txs[o].timers[timer_type] = Off]

\* TransportCallbacks.send_message on a transport that loses the first
\* dropLeft datagrams, or whose send raises: _send_request and _send_response
\* catch the exception and call on_transport_error, which logs it.
\* A log entry names the transaction and the message by its method or its
\* status code (the timer, for on_timeout).
Event(ev, o, msg) ==
    [ev |-> ev, o |-> o,
     method |-> IF msg.type = "request" THEN msg.method ELSE "",
     status |-> IF msg.type = "response" THEN msg.status ELSE 0,
     branch |-> IF msg.type \in {"request", "response"} THEN msg.branch ELSE 0,
     cseq |-> IF msg.type = "request" THEN msg.cseq ELSE 0,
     timer |-> IF msg.type = "timer" THEN msg.timer ELSE ""]

Logged(s, ev, o, msg) == [s EXCEPT !.log = Append(@, Event(ev, o, msg))]

\* self._logger.warning / .error of the manager and of the UA, about a message
\* that belongs to no transaction.
Warned(s, ev, msg) == IF loggerOn THEN Logged(s, ev, 0, msg) ELSE s

send_message(s, o, message) ==
    IF sendFails THEN Logged(s, "on_transport_error", o, message)
    ELSE IF s.dropLeft > 0
    THEN Logged([s EXCEPT !.dropLeft = @ - 1], "dropped", o, message)
    ELSE Logged([s EXCEPT !.txs[o].delivered = TRUE], "sent", o, message)

_send_request(s, o) ==
    IF s.txs[o].request = NoMsg THEN s ELSE send_message(s, o, s.txs[o].request)

_send_response(s, o) ==
    IF s.txs[o].response = NoMsg THEN s ELSE send_message(s, o, s.txs[o].response)

_send_response_internal(s, o, response) ==
    _send_response([s EXCEPT !.txs[o].response = response], o)

Min(a, b) == IF a < b THEN a ELSE b

RECURSIVE Pow2(_)
Pow2(n) == IF n = 0 THEN 1 ELSE 2 * Pow2(n - 1)

_handle_retransmission_uncapped(s, o, timer_type) ==
    LET t == s.txs[o] IN
    IF t.rc >= max_retransmissions
    THEN _transition_to(s, o, "TERMINATED")
    ELSE LET s1 == [s EXCEPT !.txs[o].rc = @ + 1]
             s2 == IF t.kind \in ClientKinds
                   THEN _send_request(s1, o)
                   ELSE _send_response(s1, o)
             next_interval == Pow2(s1.txs[o].rc) * T1
         IN _start_timer(s2, o, timer_type, next_interval)

_handle_retransmission(s, o, timer_type) ==
    LET t == s.txs[o] IN
    IF t.rc >= max_retransmissions
    THEN _transition_to(s, o, "TERMINATED")
    ELSE LET s1 == [s EXCEPT !.txs[o].rc = @ + 1]
             s2 == IF t.kind \in ClientKinds
                   THEN _send_request(s1, o)
                   ELSE _send_response(s1, o)
             next_interval == Min(t2, Pow2(s1.txs[o].rc) * T1)
         IN _start_timer(s2, o, timer_type, next_interval)

\* The timer's task ends with the call: its entry stays in _active_timers
\* unless the handler replaced it.
_on_timer_fired(s, o, timer_type) ==
    LET s1 == Logged([s EXCEPT !.txs[o].timers[timer_type] = Done,
                               !.txs[o].timeouts = @ \cup {timer_type}],
                     "on_timeout", o, [type |-> "timer", timer |-> timer_type])
    IN IF timer_type \in {"B", "F"} THEN _transition_to(s1, o, "TERMINATED")
       ELSE IF timer_type \in {"D", "I", "J", "K"} THEN _transition_to(s1, o, "TERMINATED")
       ELSE IF timer_type \in {"A", "E", "G"} THEN _handle_retransmission(s1, o, timer_type)
       ELSE s1

_cleanup(s, o) ==
    [s EXCEPT !.txs[o].timers = [t \in TimerType |-> Off],
              !.txs[o].cleanups = @ - 1]

\* A transaction that is out of the table, with no timer and no task left, is
\* referenced by nothing.  What is kept of it is what it was (branch, kind,
\* request, origin), its last state and its callback counts.
Unreferenced(s, o) ==
    LET t == s.txs[o] IN
    /\ Lookup(s.table, t.branch) # o
    /\ t.cleanups = 0
    /\ \A tt \in TimerType : t.timers[tt] = Off

Collected(s, o) ==
    IF Unreferenced(s, o)
    THEN [s EXCEPT !.txs[o].rc = 0, !.txs[o].response = NoMsg,
                   !.txs[o].timeouts = {}, !.txs[o].delivered = FALSE]
    ELSE s

\* ------------------------------------------------- InviteClientTransaction
\* start: with no SIPTimers object (timers = None, fsm.py:188) the read of
\* self.timers.TIMER_A raises AttributeError after the request was sent.
InviteClientTransaction_start(s, o, request) ==
    LET s1 == _transition_to([s EXCEPT !.txs[o].request = request], o, "TRYING")
        s2 == _send_request(s1, o)
    IN IF timersGiven
       THEN _start_timer(_start_timer(s2, o, "A", TIMER_A), o, "B", TIMER_B)
       ELSE s2

\* ---------------------------------------------- NonInviteClientTransaction
NonInviteClientTransaction_start(s, o, request) ==
    LET s1 == _transition_to([s EXCEPT !.txs[o].request = request], o, "TRYING")
        s2 == _send_request(s1, o)
    IN IF timersGiven
       THEN _start_timer(_start_timer(s2, o, "E", TIMER_E), o, "F", TIMER_F)
       ELSE s2

\* ------------------------------------------------------ TransactionManager
get_transaction(s, tx_id) == Lookup(s.table, tx_id)

create_client_transaction(s, request, origin) ==
    LET tx_id == request.branch
        o == Len(s.txs) + 1
        kind == IF request.method = "INVITE" THEN "INVITE_CLIENT" ELSE "NON_INVITE_CLIENT"
        tx == [SIPTransaction(tx_id, kind) EXCEPT !.origin = origin]
        s1 == [s EXCEPT !.txs = Append(@, tx), !.table = (tx_id :> o) @@ @]
    IN IF tx_id \in DOMAIN s.table THEN s
       ELSE IF kind = "INVITE_CLIENT"
            THEN InviteClientTransaction_start(s1, o, request)
            ELSE NonInviteClientTransaction_start(s1, o, request)

cleanup_transaction_kept(s, tx_id) == s

cleanup_transaction(s, tx_id) ==
    IF tx_id \in DOMAIN s.table
    THEN [s EXCEPT !.table = [b \in DOMAIN @ \ {tx_id} |-> @[b]]]
    ELSE s

\* ------------------------------------------------- SIPDigestAuthentication
\* Operators that change the state and return a value give both, as a record.
_get_nonce_count_not_stored(s, nonce) ==
    LET c == IF nonce \in DOMAIN s.nonce_count THEN s.nonce_count[nonce] ELSE 0
    IN [s |-> s, nc |-> c + 1]

_get_nonce_count(s, nonce) ==
    LET c == IF nonce \in DOMAIN s.nonce_count THEN s.nonce_count[nonce] ELSE 0
    IN [s |-> [s EXCEPT !.nonce_count = (nonce :> c + 1) @@ @], nc |-> c + 1]

generate_authorization_header_count_first(s, realm, nonce, algorithm) ==
    LET g == _get_nonce_count(s, nonce)
    IN IF realm \notin s.credentials \/ algorithm \notin Supported
       THEN [s |-> g.s, header |-> NoAuth]
       ELSE [s |-> g.s, header |-> [realm |-> realm, nonce |-> nonce, nc |-> g.nc]]

\* Raises ValueError (header: NoAuth here) before it touches the counters
\* when the realm has no credentials, and after it took a count when
\* _hash_function does not know the algorithm.  nc is the count taken for the
\* header: the digest is computed with it and the header shows it when the
\* challenge has a qop.
generate_authorization_header(s, realm, nonce, algorithm) ==
    IF realm \notin s.credentials
    THEN [s |-> s, header |-> NoAuth]
    ELSE LET g == _get_nonce_count(s, nonce)
         IN IF algorithm \notin Supported
            THEN [s |-> g.s, header |-> NoAuth]
            ELSE [s |-> g.s, header |-> [realm |-> realm, nonce |-> nonce, nc |-> g.nc]]

\* None (NoAuth) for another status code, without the challenge header of
\* the status code, and when generate_authorization_header raises.
handle_authentication_challenge(s, response, original_request) ==
    IF response.status \notin {401, 407} THEN [s |-> s, header |-> NoAuth]
    ELSE IF response.realm = "none" THEN [s |-> s, header |-> NoAuth]
    ELSE generate_authorization_header(s, response.realm, response.nonce,
                                       response.algorithm)

\* The new request: the original's method, URI, body and headers other than
\* Via; the Via with a fresh branch; the authorization header of the status
\* code; the CSeq number raised by one.  The original itself without a header.
create_authenticated_request_same_cseq(s, original_request, auth_response, new_branch) ==
    LET h == handle_authentication_challenge(s, auth_response, original_request)
        r1 == [original_request EXCEPT !.branch = new_branch]
    IN IF h.header = NoAuth THEN [s |-> h.s, request |-> original_request]
       ELSE IF auth_response.status = 401
            THEN [s |-> h.s, request |-> [r1 EXCEPT !.authorization = h.header]]
            ELSE [s |-> h.s, request |-> [r1 EXCEPT !.proxy_authorization = h.header]]

create_authenticated_request(s, original_request, auth_response, new_branch) ==
    LET h == handle_authentication_challenge(s, auth_response, original_request)
        r1 == [original_request EXCEPT !.branch = new_branch, !.cseq = @ + 1]
    IN IF h.header = NoAuth THEN [s |-> h.s, request |-> original_request]
       ELSE IF auth_response.status = 401
            THEN [s |-> h.s, request |-> [r1 EXCEPT !.authorization = h.header]]
            ELSE [s |-> h.s, request |-> [r1 EXCEPT !.proxy_authorization = h.header]]

add_credentials(s, realm) == [s EXCEPT !.credentials = @ \cup {realm}]

\* ------------------------------------------------------------ SIPUserAgent
_handle_authentication_challenge(s, tx_id, response) ==
    LET o == get_transaction(s, tx_id) IN
    IF o = 0 THEN s
    ELSE IF s.txs[o].request = NoMsg THEN s
    ELSE LET a == create_authenticated_request(s, s.txs[o].request, response,
                                               Len(s.txs) + 1)
         IN IF a.request = s.txs[o].request THEN a.s
            ELSE create_client_transaction(a.s, a.request, o)

\* ----------------------------------------------------------- DialogManager
SIPDialog(request) ==
    [state |-> "INITIAL", call_id |-> request.callId,
     local_uri |-> request.from, remote_uri |-> request.to,
     local_tag |-> request.fromTag, remote_tag |-> 0,
     local_cseq |-> request.cseq, remote_cseq |-> 0]

DialogId(request) == <<request.callId, request.fromTag>>

create_dialog_from_request(s, request) ==
    [s EXCEPT !.dialogs = (DialogId(request) :> SIPDialog(request)) @@ @]

update_dialog_from_response(s, dialog_id, response) ==
    LET status_code == response.status
        remote_tag == response.toTag
    IN
    IF dialog_id \notin DOMAIN s.dialogs THEN s
    ELSE IF 100 <= status_code /\ status_code <= 199 THEN
        IF remote_tag # 0 /\ s.dialogs[dialog_id].remote_tag = 0
        THEN [s EXCEPT !.dialogs[dialog_id].remote_tag = remote_tag,
                       !.dialogs[dialog_id].state = "EARLY"]
        ELSE s
    ELSE IF 200 <= status_code /\ status_code <= 299 THEN
        IF remote_tag # 0
        THEN [s EXCEPT !.dialogs[dialog_id].remote_tag = remote_tag,
                       !.dialogs[dialog_id].state = "CONFIRMED"]
        ELSE s
    ELSE IF status_code >= 300 THEN
        [s EXCEPT !.dialogs[dialog_id].state = "TERMINATED"]
    ELSE s

terminate_dialog(s, dialog_id) ==
    IF dialog_id \in DOMAIN s.dialogs
    THEN [s EXCEPT !.dialogs[dialog_id].state = "TERMINATED"]
    ELSE s

\* The dialog table is keyed "<call-id>-<tag>"; a client transaction id is
\* "z9hG4bK" and 16 hex digits, with no "-": get_dialog(tx_id) finds nothing.
get_dialog_of_transaction(s, tx_id) == 0

on_final_response(s, tx_id, response) ==
    IF response.status \in {401, 407}
    THEN _handle_authentication_challenge(s, tx_id, response)
    ELSE LET o == get_transaction(s, tx_id)
             dialog_id == get_dialog_of_transaction(s, tx_id)
         IN IF o # 0 /\ s.txs[o].kind = "INVITE_CLIENT" /\ dialog_id # 0
            THEN update_dialog_from_response(s, dialog_id, response)
            ELSE s

on_terminated(s, tx_id) == cleanup_transaction(s, tx_id)

on_provisional_response(s, o, response) == Logged(s, "on_provisional_response", o, response)

\* The callback is made twice for one response.
final_response_callback_twice(s, o, response) ==
    LET s1 == on_final_response(Logged([s EXCEPT !.txs[o].nfinal = @ + 1],
                                       "on_final_response", o, response),
                                s.txs[o].branch, response)
    IN on_final_response(Logged([s1 EXCEPT !.txs[o].nfinal = @ + 1],
                                "on_final_response", o, response),
                         s.txs[o].branch, response)

\* The callback as the transaction calls it: counted on the transaction,
\* then handled by the UA.
final_response_callback(s, o, response) ==
    on_final_response(Logged([s EXCEPT !.txs[o].nfinal = @ + 1],
                             "on_final_response", o, response),
                      s.txs[o].branch, response)

\* A timer is started by reading its duration from self.timers: without a
\* SIPTimers object that read raises and ends the handler.
start_timer_or_raise(s, o, timer_type, duration) ==
    IF timersGiven THEN _start_timer(s, o, timer_type, duration) ELSE s

InviteClientTransaction_process_message(s, o, message) ==
    LET state == s.txs[o].state
        status_code == message.status
    IN
    IF message.type # "response" THEN s
    ELSE IF state = "TRYING" THEN
        IF 100 <= status_code /\ status_code <= 199 THEN
            on_provisional_response(
                _cancel_timer(_transition_to(s, o, "PROCEEDING"), o, "A"), o, message)
        ELSE IF 200 <= status_code /\ status_code <= 299 THEN
            start_timer_or_raise(
                final_response_callback(
                    _cancel_timer(_cancel_timer(_transition_to(s, o, "ACCEPTED"), o, "A"),
                                  o, "B"),
                    o, message),
                o, "L", TIMER_L)
        ELSE IF status_code >= 300 THEN
            start_timer_or_raise(
                final_response_callback(
                    _cancel_timer(_cancel_timer(_transition_to(s, o, "COMPLETED"), o, "A"),
                                  o, "B"),
                    o, message),
                o, "D", TIMER_D)
        ELSE s
    ELSE IF state = "PROCEEDING" THEN
        IF 200 <= status_code /\ status_code <= 299 THEN
            start_timer_or_raise(
                final_response_callback(_transition_to(s, o, "ACCEPTED"), o, message),
                o, "L", TIMER_L)
        ELSE IF status_code >= 300 THEN
            start_timer_or_raise(
                final_response_callback(_transition_to(s, o, "COMPLETED"), o, message),
                o, "D", TIMER_D)
        ELSE on_provisional_response(s, o, message)
    ELSE s

NonInviteClientTransaction_process_message(s, o, message) ==
    LET state == s.txs[o].state
        status_code == message.status
    IN
    IF message.type # "response" THEN s
    ELSE IF state = "TRYING" THEN
        IF 100 <= status_code /\ status_code <= 199 THEN
            on_provisional_response(
                _cancel_timer(_transition_to(s, o, "PROCEEDING"), o, "E"), o, message)
        ELSE IF status_code >= 200 THEN
            final_response_callback(
                _cancel_timer(_cancel_timer(_transition_to(s, o, "TERMINATED"), o, "E"),
                              o, "F"),
                o, message)
        ELSE s
    ELSE IF state = "PROCEEDING" THEN
        IF status_code >= 200 THEN
            final_response_callback(_transition_to(s, o, "TERMINATED"), o, message)
        ELSE on_provisional_response(s, o, message)
    ELSE s

\* ------------------------------------------------------ server transactions
\* SIPMessage.create_response: Via (the branch) copied from the request; a To
\* without tag gets the tag id(msg), a number no other live object has.
_create_response(s, o, status_code) ==
    LET request == s.txs[o].request IN
    Response(status_code, request.branch,
             IF request.toTag # 0 THEN request.toTag ELSE 1000 * o + status_code,
             "none", "none", "none")

InviteServerTransaction_send_provisional_response(s, o, status_code) ==
    IF s.txs[o].state # "PROCEEDING" THEN s
    ELSE _send_response_internal(s, o, _create_response(s, o, status_code))

\* Without a SIPTimers object the read of self.timers.TIMER_L / TIMER_H raises
\* after the transition and before the response is stored and sent.
InviteServerTransaction_send_final_response(s, o, status_code) ==
    IF s.txs[o].state # "PROCEEDING" THEN s
    ELSE LET response == _create_response(s, o, status_code)
             s1 == IF 200 <= status_code /\ status_code <= 299
                   THEN _transition_to(s, o, "ACCEPTED")
                   ELSE _transition_to(s, o, "COMPLETED")
             s2 == IF 200 <= status_code /\ status_code <= 299
                   THEN _start_timer(s1, o, "L", TIMER_L)
                   ELSE _start_timer(_start_timer(s1, o, "H", TIMER_H), o, "G", TIMER_G)
         IN IF timersGiven THEN _send_response_internal(s2, o, response) ELSE s1

InviteServerTransaction_process_message(s, o, message) ==
    LET state == s.txs[o].state IN
    IF message.type # "request" THEN s
    ELSE IF message.method = "ACK" THEN
        IF state = "ACCEPTED" THEN
            start_timer_or_raise(
                _cancel_timer(_transition_to(s, o, "CONFIRMED"), o, "L"), o, "I", TIMER_I)
        ELSE IF state = "COMPLETED" THEN
            start_timer_or_raise(
                _cancel_timer(_cancel_timer(_transition_to(s, o, "CONFIRMED"), o, "G"),
                              o, "H"),
                o, "I", TIMER_I)
        ELSE s
    ELSE IF state = "PROCEEDING" THEN
        IF s.txs[o].response # NoMsg
        THEN _send_response_internal(s, o, s.txs[o].response)
        ELSE s
    ELSE s

NonInviteServerTransaction_send_provisional_response(s, o, status_code) ==
    IF s.txs[o].state # "TRYING" THEN s
    ELSE LET s1 == _transition_to(s, o, "PROCEEDING")
         IN _send_response_internal(s1, o, _create_response(s1, o, status_code))

NonInviteServerTransaction_send_final_response_any_state(s, o, status_code) ==
    LET s1 == _transition_to(s, o, "COMPLETED")
        s2 == _send_response_internal(s1, o, _create_response(s1, o, status_code))
    IN start_timer_or_raise(s2, o, "J", TIMER_J)

NonInviteServerTransaction_send_final_response(s, o, status_code) ==
    IF s.txs[o].state \notin {"TRYING", "PROCEEDING"} THEN s
    ELSE LET s1 == _transition_to(s, o, "COMPLETED")
             s2 == _send_response_internal(s1, o, _create_response(s1, o, status_code))
         IN start_timer_or_raise(s2, o, "J", TIMER_J)

NonInviteServerTransaction_process_message(s, o, message) ==
    IF s.txs[o].state = "COMPLETED" /\ s.txs[o].response # NoMsg
    THEN _send_response_internal(s, o, s.txs[o].response)
    ELSE s

\* A client transaction that has its final response reports a later one too.
process_message_late_reported(s, o, message) ==
    LET kind == s.txs[o].kind IN
    IF /\ kind \in ClientKinds
       /\ message.type = "response"
       /\ s.txs[o].state \in {"COMPLETED", "ACCEPTED", "TERMINATED"}
    THEN final_response_callback(s, o, message)
    ELSE IF kind = "INVITE_CLIENT" THEN InviteClientTransaction_process_message(s, o, message)
    ELSE IF kind = "NON_INVITE_CLIENT"
         THEN NonInviteClientTransaction_process_message(s, o, message)
    ELSE IF kind = "INVITE_SERVER"
         THEN InviteServerTransaction_process_message(s, o, message)
    ELSE NonInviteServerTransaction_process_message(s, o, message)

process_message(s, o, message) ==
    LET kind == s.txs[o].kind IN
    IF kind = "INVITE_CLIENT" THEN InviteClientTransaction_process_message(s, o, message)
    ELSE IF kind = "NON_INVITE_CLIENT"
         THEN NonInviteClientTransaction_process_message(s, o, message)
    ELSE IF kind = "INVITE_SERVER"
         THEN InviteServerTransaction_process_message(s, o, message)
    ELSE NonInviteServerTransaction_process_message(s, o, message)

\* TransactionManager.send_response: only the server classes have
\* send_final_response.
send_response(s, tx_id, status_code) ==
    LET o == get_transaction(s, tx_id) IN
    IF o = 0 THEN s
    ELSE IF s.txs[o].kind = "INVITE_SERVER"
         THEN InviteServerTransaction_send_final_response(s, o, status_code)
    ELSE IF s.txs[o].kind = "NON_INVITE_SERVER"
         THEN NonInviteServerTransaction_send_final_response(s, o, status_code)
    ELSE s

\* ------------------------------------------------- SIPUserAgent, continued
\* For an INVITE the handler creates the dialog, answers 100 through
\* send_response and sleeps one second before it answers 200; with no
\* SIPTimers object the 100 raises and the handler ends there.
on_request_received(s, o, request) ==
    LET tx_id == s.txs[o].branch
        s0 == Logged([s EXCEPT !.txs[o].nreq = @ + 1], "on_request_received", o, request)
    IN
    IF request.method = "INVITE" THEN
        LET s1 == send_response(create_dialog_from_request(s0, request), tx_id, 100)
        IN IF timersGiven THEN [s1 EXCEPT !.txs[o].sleep = HandlerSleep] ELSE s1
    ELSE send_response(s0, tx_id, 200)

\* The rest of the INVITE branch of on_request_received, after the sleep.
on_request_received_resume(s, o) ==
    send_response([s EXCEPT !.txs[o].sleep = Off], s.txs[o].branch, 200)

InviteServerTransaction_start(s, o, request) ==
    on_request_received(
        _transition_to([s EXCEPT !.txs[o].request = request], o, "PROCEEDING"), o, request)

NonInviteServerTransaction_start(s, o, request) ==
    on_request_received(
        _transition_to([s EXCEPT !.txs[o].request = request], o, "TRYING"), o, request)

\* A transaction is made for every request, whatever the table holds.
create_server_transaction_unchecked(s, request) ==
    LET tx_id == request.branch
        o == Len(s.txs) + 1
        kind == IF request.method = "INVITE" THEN "INVITE_SERVER" ELSE "NON_INVITE_SERVER"
        s1 == [s EXCEPT !.txs = Append(@, SIPTransaction(tx_id, kind)),
                        !.table = (tx_id :> o) @@ @]
    IN IF kind = "INVITE_SERVER"
       THEN InviteServerTransaction_start(s1, o, request)
       ELSE NonInviteServerTransaction_start(s1, o, request)

create_server_transaction(s, request) ==
    LET tx_id == request.branch
        o == Len(s.txs) + 1
        kind == IF request.method = "INVITE" THEN "INVITE_SERVER" ELSE "NON_INVITE_SERVER"
        s1 == [s EXCEPT !.txs = Append(@, SIPTransaction(tx_id, kind)),
                        !.table = (tx_id :> o) @@ @]
    IN IF tx_id \in DOMAIN s.table THEN process_message(s, s.table[tx_id], request)
       ELSE IF kind = "INVITE_SERVER"
            THEN InviteServerTransaction_start(s1, o, request)
            ELSE NonInviteServerTransaction_start(s1, o, request)

\* A response is given to the first transaction of the table when its branch
\* is in no entry.
process_response_to_any(s, response) ==
    LET o == get_transaction(s, response.branch) IN
    IF o # 0 THEN process_message(s, o, response)
    ELSE IF DOMAIN s.table # {}
         THEN process_message(s, s.table[CHOOSE b \in DOMAIN s.table : TRUE], response)
         ELSE Warned(s, "warning", response)

\* With no transaction under the branch the response is dropped, with a
\* warning of the logger (an entry of the log, of no transaction).
process_response(s, response) ==
    LET o == get_transaction(s, response.branch) IN
    IF o # 0 THEN process_message(s, o, response)
    ELSE Warned(s, "warning", response)

process_request(s, request) ==
    IF request.method = "ACK" /\ get_transaction(s, request.branch) # 0
    THEN process_message(s, get_transaction(s, request.branch), request)
    ELSE create_server_transaction(s, request)

\* ---------------------------------------------------- SIPUserAgent, its API
\* The request builders: a fresh branch, From-tag and Call-ID, CSeq 1.
_create_request(s, method, body) ==
    LET n == Len(s.txs) + 1
    IN Request(method, TargetUri, n, LocalUri, n, TargetUri, 0, n, 1, body)

send_options(s) == create_client_transaction(s, _create_request(s, "OPTIONS", ""), 0)

send_register(s) == create_client_transaction(s, _create_request(s, "REGISTER", ""), 0)

send_invite(s, body) == create_client_transaction(s, _create_request(s, "INVITE", body), 0)

_create_bye_request_not_stored(s, dialog_id) ==
    LET dialog == s.dialogs[dialog_id]
    IN [s |-> s,
        request |-> Request("BYE", dialog.remote_uri, Len(s.txs) + 1,
                            dialog.local_uri, dialog.local_tag,
                            dialog.remote_uri, dialog.remote_tag,
                            dialog.call_id, dialog.local_cseq + 1, "")]

_create_bye_request(s, dialog_id) ==
    LET dialog == s.dialogs[dialog_id]
        s1 == [s EXCEPT !.dialogs[dialog_id].local_cseq = @ + 1]
    IN [s |-> s1,
        request |-> Request("BYE", dialog.remote_uri, Len(s.txs) + 1,
                            dialog.local_uri, dialog.local_tag,
                            dialog.remote_uri, dialog.remote_tag,
                            dialog.call_id, dialog.local_cseq + 1, "")]

send_bye(s, dialog_id) ==
    IF dialog_id \notin DOMAIN s.dialogs THEN s
    ELSE LET b == _create_bye_request(s, dialog_id)
         IN create_client_transaction(b.s, b.request, 0)

\* process_incoming_message, for a message that parses and validates.
process_incoming_message(s, message) ==
    IF message.type = "request" THEN process_request(s, message)
    ELSE process_response(s, message)

\* -------------------------------------------------------------- SIPMessage
\* Text is a sequence of tokens: a CRLF, a space, a colon, or a word (a piece
\* of text with none of the three in it).
CRLF == "CRLF"
SP == " "
COLON == ":"
sip_version == "SIP/2.0"
SIPMethod == {"INVITE", "ACK", "OPTIONS", "BYE", "CANCEL", "REGISTER", "INFO", "MESSAGE"}

\* str.strip: white space off both ends.
RECURSIVE strip(_)
strip(text) ==
    IF text # <<>> /\ Head(text) \in {SP, CRLF} THEN strip(Tail(text))
    ELSE IF text # <<>> /\ text[Len(text)] \in {SP, CRLF}
         THEN strip(SubSeq(text, 1, Len(text) - 1))
    ELSE text

\* str.split(sep, maxsplit): the pieces between the first maxsplit separators.
RECURSIVE split(_, _, _)
split(text, sep, maxsplit) ==
    IF maxsplit = 0 \/ \A i \in 1..Len(text) : text[i] # sep
    THEN <<text>>
    ELSE LET i == CHOOSE k \in 1..Len(text) :
                     text[k] = sep /\ \A j \in 1..(k - 1) : text[j] # sep
         IN <<SubSeq(text, 1, i - 1)>>
                \o split(SubSeq(text, i + 1, Len(text)), sep, maxsplit - 1)

\* sep.join(lines)
RECURSIVE join(_, _)
join(lines, sep) ==
    IF Len(lines) = 0 THEN <<>>
    ELSE IF Len(lines) = 1 THEN lines[1]
    ELSE lines[1] \o <<sep>> \o join(Tail(lines), sep)

\* str(n) and int(word), for the numbers of status codes and lengths; int
\* raises ValueError (-1 here) for a word that is not a number.
str(n) == ToString(n)

int(word) ==
    IF \E n \in 0..699 : ToString(n) = word
    THEN CHOOSE n \in 0..699 : ToString(n) = word
    ELSE 0 - 1

\* A SIPMessage object.  method "" and status_code 0 stand for None, and so
\* does a body that is not present; a header is a SIPHeader, its name and its
\* value text that SIPHeader.__init__ stripped.
SIPMessage(method, uri, status_code, reason_phrase, headers, body) ==
    [type |-> "SIPMessage", method |-> method, uri |-> uri,
     status_code |-> status_code, reason_phrase |-> reason_phrase,
     headers |-> headers, body |-> body]

SIPHeader(name, value) == [name |-> strip(name), value |-> strip(value)]

None == [present |-> FALSE, content |-> <<>>]

SIPBody(content) == [present |-> TRUE, content |-> content]

\* SIPBody.content_length: the bytes of the content.  A CRLF is two bytes, a
\* space and a colon one; the words of the bodies have three.
RECURSIVE content_length(_)
content_length(content) ==
    IF content = <<>> THEN 0
    ELSE (IF Head(content) = CRLF THEN 2
          ELSE IF Head(content) \in {SP, COLON} THEN 1 ELSE 3)
         + content_length(Tail(content))

\* get_header: the value of the first header of the name, the names compared
\* in lower case; <<>> for None.
get_header(msg, name) ==
    LET lower(word) == IF word = "Via" THEN "via"
                       ELSE IF word = "From" THEN "from"
                       ELSE IF word = "Content-Length" THEN "content-length"
                       ELSE word
        found == {i \in 1..Len(msg.headers) :
                    Len(msg.headers[i].name) = 1 /\ lower(msg.headers[i].name[1]) = name}
    IN IF found = {} THEN <<>>
       ELSE msg.headers[CHOOSE i \in found : \A j \in found : i <= j].value

\* SIPMessage.encode: the first line, the headers, a Content-Length when a
\* body is there and no header has one, the empty line, the body.
SIPMessage_encode(msg) ==
    LET first == IF msg.method # ""
                 THEN <<msg.method, SP, msg.uri, SP, sip_version>>
                 ELSE <<sip_version, SP, str(msg.status_code), SP>> \o msg.reason_phrase
        header_lines == [i \in 1..Len(msg.headers) |->
                            msg.headers[i].name \o <<COLON, SP>> \o msg.headers[i].value]
        length_line == IF msg.body.present /\ get_header(msg, "content-length") = <<>>
                       THEN <<(<<"Content-Length", COLON, SP,
                                 str(content_length(msg.body.content))>>)>>
                       ELSE <<>>
        body_lines == IF msg.body.present THEN <<msg.body.content>> ELSE <<>>
    IN join(<<first>> \o header_lines \o length_line \o <<(<<>>)>> \o body_lines, CRLF)

\* The header lines of parse: a line with a colon gives a header, its name
\* the text before the first colon.
RECURSIVE parse_headers(_)
parse_headers(lines) ==
    IF Len(lines) = 0 THEN <<>>
    ELSE LET line == Head(lines)
             parts == split(line, COLON, 1)
         IN (IF Len(parts) = 2 THEN <<SIPHeader(parts[1], parts[2])>> ELSE <<>>)
            \o parse_headers(Tail(lines))

\* SIPMessage.parse.  The whole text is stripped, then cut in lines; the
\* headers go up to the first line that is empty; what is after that line is
\* the body, when it is more than white space.  [type |-> "raised"] for the
\* ValueError of SIPMethod(...) and of int(...).
SIPMessage_parse(text) ==
    LET lines == split(strip(text), CRLF, Len(text))
        first_line == strip(lines[1])
        parts == split(first_line, SP, 2)
        is_response == first_line # <<>> /\ first_line[1] = sip_version
        empty_lines == {k \in 2..Len(lines) : strip(lines[k]) = <<>>}
        empty_line_idx == IF empty_lines = {} THEN 0
                          ELSE CHOOSE k \in empty_lines : \A j \in empty_lines : k <= j
        header_lines == SubSeq(lines, 2, IF empty_line_idx = 0 THEN Len(lines)
                                         ELSE empty_line_idx - 1)
        body_content == join(SubSeq(lines, empty_line_idx + 1, Len(lines)), CRLF)
        body == IF empty_line_idx > 0 /\ empty_line_idx < Len(lines)
                   /\ strip(body_content) # <<>>
                THEN SIPBody(body_content)
                ELSE None
        word(part) == IF Len(part) = 1 THEN part[1] ELSE ""
    IN IF Len(parts) < 2
       THEN SIPMessage("", "", 0, <<>>, parse_headers(header_lines), body)
       ELSE IF is_response
       THEN IF int(word(parts[2])) < 0 THEN [type |-> "raised"]
            ELSE SIPMessage("", "", int(word(parts[2])),
                            IF Len(parts) > 2 THEN parts[3] ELSE <<>>,
                            parse_headers(header_lines), body)
       ELSE IF word(parts[1]) \notin SIPMethod THEN [type |-> "raised"]
            ELSE SIPMessage(word(parts[1]), word(parts[2]), 0, <<>>,
                            parse_headers(header_lines), body)

\* SIPMessage.REQUIRED_HEADERS, the names in lower case as validate compares
\* them.
REQUIRED_HEADERS == {"via", "from", "to", "call-id", "cseq", "max-forwards"}

\* A raw message, as far as parse and validate look at it: what its first
\* line is, the names of its header lines, and the message that its lines
\* spell.  First lines:
\*   request         "<method> <uri> SIP/2.0", the method one of SIPMethod
\*   response        "SIP/2.0 <digits> <reason>"
\*   unknown_method  a request line of a method SIPMethod does not have
\*   bad_status      "SIP/2.0 <not a number> ..."
\*   short           one word: neither a method nor a status code is read
RawMessage(first, names, message) == [first |-> first, names |-> names, message |-> message]

\* SIPMessage.parse, of a raw message given by its first line and its header
\* names.  SIPMethod(parts[0]) and int(parts[1]) raise ValueError.
\* The branch of the message is the branch parameter of its Via header:
\* without one generate_transaction_id makes an identifier of its own, the
\* key of no transaction (0).
SIPMessage_parse_raw(raw_message) ==
    IF raw_message.first \in {"unknown_method", "bad_status"}
    THEN [raised |-> TRUE, is_request |-> FALSE, is_response |-> FALSE,
          names |-> {}, message |-> NoMsg]
    ELSE [raised |-> FALSE,
          is_request |-> raw_message.first = "request",
          is_response |-> raw_message.first = "response",
          names |-> raw_message.names,
          message |-> IF raw_message.first = "short" THEN NoMsg
                      ELSE IF "via" \in raw_message.names THEN raw_message.message
                      ELSE [raw_message.message EXCEPT !.branch = 0]]

SIPMessage_validate_but_max_forwards(msg) ==
    /\ msg.is_request \/ msg.is_response
    /\ msg.is_request => (REQUIRED_HEADERS \ {"max-forwards"}) \subseteq msg.names

\* SIPMessage.validate, for header lines and a body that are well formed: a
\* message is a request or a response, and a request has the required headers.
SIPMessage_validate(msg) ==
    /\ msg.is_request \/ msg.is_response
    /\ msg.is_request => REQUIRED_HEADERS \subseteq msg.names

\* process_incoming_message as a whole, from the raw message: an exception of
\* parse is caught and logged, an invalid message is logged and left.
process_incoming_raw_message(s, raw_message) ==
    LET message == SIPMessage_parse_raw(raw_message) IN
    IF message.raised THEN Warned(s, "error", NoMsg)
    ELSE IF ~SIPMessage_validate(message) THEN Warned(s, "error", NoMsg)
    ELSE process_incoming_message(s, message.message)

\* ------------------------------------------------------------- environment
\* Requests of peers carry the peers' own identifiers.
InboundRequests ==
    {Request(m, LocalUri, b, TargetUri, ft, LocalUri, 0, c, 1, "") :
        m \in {"INVITE", "ACK", "BYE"}, b \in PeerBranches,
        ft \in PeerFromTags, c \in PeerCallIds}

ChallengeResponses(b) ==
    {Response(st, b, 0, r, p[1], p[2]) :
        st \in {401, 407}, r \in Realms, p \in ChallengeParams}
    \cup {Response(st, b, 0, "none", "none", "none") : st \in {401, 407}}

PlainResponses(b) ==
    {Response(st, b, tt, "none", "none", "none") :
        st \in StatusCodes \ {401, 407}, tt \in PeerFromTags}

\* A peer answers a request it has received: a response carries the branch of
\* a client transaction only after one of its sends was delivered.
ResponseBranches ==
    {txs[o].branch : o \in {i \in 1..Len(txs) : txs[i].kind \in ClientKinds
                                              /\ txs[i].delivered}}

\* Responses with a peer's branch match no client transaction.
StrayResponses ==
    {Response(200, b, -1, "none", "none", "none") : b \in PeerBranches}
    \cup {Response(401, b, 0, r, n, "MD5") : b \in PeerBranches, r \in Realms, n \in Nonces}

InboundResponses ==
    UNION {ChallengeResponses(b) \cup PlainResponses(b) : b \in ResponseBranches}
    \cup StrayResponses

\* The header names of a raw message: all that are required, or all but one.
HeaderSets == {REQUIRED_HEADERS} \cup {REQUIRED_HEADERS \ {h} : h \in REQUIRED_HEADERS}

\* The raw messages that do not get through parse and validate.
BrokenMessages ==
    {RawMessage("request", names, m) :
        names \in HeaderSets \ {REQUIRED_HEADERS}, m \in InboundRequests}
    \cup {RawMessage(first, REQUIRED_HEADERS, NoMsg) :
             first \in {"unknown_method", "bad_status", "short"}}

\* Responses are not looked at for their headers: one without a Via is valid.
RawMessages ==
    BrokenMessages
    \cup {RawMessage("request", REQUIRED_HEADERS, m) : m \in InboundRequests}
    \cup {RawMessage("response", names, m) :
             names \in {REQUIRED_HEADERS, REQUIRED_HEADERS \ {"via"}},
             m \in InboundResponses}

\* ------------------------------------------------------------------ actions
Within(s) == Len(s.txs) <= limit

Step(s) == Within(s) /\ Apply(s)

Busy(t) ==
    \/ t.cleanups > 0
    \/ t.sleep >= 0
    \/ \E tt \in TimerType : t.timers[tt] >= 0

NumBusy == Cardinality({o \in 1..Len(txs) : Busy(txs[o])})

\* The application or a peer may begin a transaction.
MayBegin == NumBusy < MaxBusy

SendOptions ==
    /\ MayBegin
    /\ Step(send_options(Cur))

SendRegister ==
    /\ MayBegin
    /\ Step(send_register(Cur))

SendInvite ==
    /\ MayBegin
    /\ \E body \in Bodies : Step(send_invite(Cur, body))

SendBye ==
    /\ MayBegin
    /\ \E d \in DOMAIN dialogs : Step(send_bye(Cur, d))

AddCredentials == \E r \in Realms : r \notin credentials /\ Step(add_credentials(Cur, r))

ReceiveRequest ==
    \E m \in InboundRequests :
        /\ (m.method # "ACK" /\ m.branch \notin DOMAIN table) => MayBegin
        /\ Step(process_incoming_message(Cur, m))

ReceiveResponse == \E m \in InboundResponses : Step(process_incoming_message(Cur, m))

\* A datagram arrives that is not a valid message, or a response without Via.
ReceiveRaw ==
    \E raw \in BrokenMessages
              \cup {RawMessage("response", REQUIRED_HEADERS \ {"via"}, m) :
                      m \in InboundResponses} :
        Step(process_incoming_raw_message(Cur, raw))

\* An application call of TransactionManager.send_response.
SendResponse ==
    \E b \in DOMAIN table, st \in {180, 200, 486} : Step(send_response(Cur, b, st))

\* An application call of send_provisional_response on a server transaction.
SendProvisionalResponse ==
    \E b \in DOMAIN table :
        LET o == table[b] IN
        \/ /\ txs[o].kind = "INVITE_SERVER"
           /\ Step(InviteServerTransaction_send_provisional_response(Cur, o, 180))
        \/ /\ txs[o].kind = "NON_INVITE_SERVER"
           /\ Step(NonInviteServerTransaction_send_provisional_response(Cur, o, 180))

\* Application calls of the DialogManager.
UpdateDialogFromResponse ==
    \E d \in DOMAIN dialogs, st \in StatusCodes \ {401, 407}, tt \in PeerTags \cup {0} :
        Step(update_dialog_from_response(Cur, d, Response(st, 0, tt, "none", "none", "none")))

TerminateDialog == \E d \in DOMAIN dialogs : Step(terminate_dialog(Cur, d))

Armed(t) == {tt \in TimerType : t.timers[tt] > 0}
Due(t) == \E tt \in TimerType : t.timers[tt] = 0

\* timer_handler: the sleep of a timer that is still in _active_timers ends.
TimerFired ==
    \E o \in 1..Len(txs), tt \in TimerType :
        /\ txs[o].timers[tt] = 0
        /\ Step(_on_timer_fired(Cur, o, tt))

\* The sleep of on_request_received ends.
HandlerResumes ==
    \E o \in 1..Len(txs) :
        /\ txs[o].sleep = 0
        /\ Step(on_request_received_resume(Cur, o))

\* The _cleanup task made by _transition_to(TERMINATED) runs.
Cleanup ==
    \E o \in 1..Len(txs) :
        /\ txs[o].cleanups > 0
        /\ Step(Collected(on_terminated(_cleanup(Cur, o), txs[o].branch), o))

\* Time passes, up to the next deadline.  Nothing is due and no task is ready
\* to run: the loop runs what is ready before it waits.
Waits(t) == {t.timers[tt] : tt \in Armed(t)} \cup (IF t.sleep > 0 THEN {t.sleep} ELSE {})

MinOf(S) == CHOOSE x \in S : \A y \in S : x <= y

Ready(t) == Due(t) \/ t.sleep = 0 \/ t.cleanups > 0

Elapse(t, d) ==
    [t EXCEPT !.timers = [tt \in TimerType |->
                            IF t.timers[tt] > 0 THEN t.timers[tt] - d ELSE t.timers[tt]],
              !.sleep = IF t.sleep > 0 THEN t.sleep - d ELSE t.sleep]

Advance ==
    LET W == UNION {Waits(txs[o]) : o \in 1..Len(txs)} IN
    /\ W # {}
    /\ \A o \in 1..Len(txs) : ~Ready(txs[o])
    /\ Step([Cur EXCEPT !.txs = [o \in 1..Len(txs) |-> Elapse(txs[o], MinOf(W))]])

\* SIPUserAgent.__init__, for the SIPTimers objects, the transports and the
\* logging set-ups of the sets given (T2 is a field of SIPTimers, an argument
\* of its constructor).
InitLogging(bound, drops, t2s, fails, logs) ==
    /\ limit = bound
    /\ loggerOn \in logs
    /\ timersGiven \in BOOLEAN
    /\ t2 \in t2s
    /\ sendFails \in fails
    /\ txs = <<>>
    /\ table = [b \in {} |-> 0]
    /\ dialogs = [d \in {} |-> 0]
    /\ credentials = {}
    /\ nonce_count = [n \in {} |-> 0]
    /\ dropFirst \in drops
    /\ dropLeft = dropFirst
    /\ log = <<>>
    /\ original = NoMsg
    /\ wire = <<>>
    /\ parsed = NoMsg
    /\ local_offer = NoMsg
    /\ remote_answer = NoMsg
    /\ negotiated = NoMsg

\* Nothing of the loggers is recorded.
InitEnv(bound, drops, t2s, fails) == InitLogging(bound, drops, t2s, fails, {FALSE})

\* The default timers and a transport whose send does not raise.
InitWith(bound, drops) == InitEnv(bound, drops, {T2}, {FALSE})

\* Transactions, dialogs and time, for an application that stored no
\* credentials.
Init == InitWith(MaxTx, {0})

Next ==
    \/ SendOptions
    \/ SendRegister
    \/ SendInvite
    \/ SendBye
    \/ ReceiveRequest
    \/ ReceiveResponse
    \/ SendResponse
    \/ SendProvisionalResponse
    \/ UpdateDialogFromResponse
    \/ TerminateDialog
    \/ TimerFired
    \/ HandlerResumes
    \/ Cleanup
    \/ Advance

Spec == Init /\ [][Next]_vars

\* One client transaction over a transport that drops the first dropLeft sends.
InitLossy == InitWith(MaxTxAlone, 0..MaxDrop)

NextLossy ==
    \/ SendOptions
    \/ SendRegister
    \/ SendInvite
    \/ ReceiveResponse
    \/ TimerFired
    \/ Cleanup
    \/ Advance

SpecLossy == InitLossy /\ [][NextLossy]_vars

\* Credentials, challenges and re-issues, every response arriving before the
\* first timer of its transaction.
InitAuth == InitWith(MaxTxAuth, {0})

NextAuth ==
    \/ SendOptions
    \/ SendRegister
    \/ SendInvite
    \/ AddCredentials
    \/ ReceiveResponse
    \/ Cleanup

SpecAuth == InitAuth /\ [][NextAuth]_vars

\* One transaction of any kind, from its creation to the end.  The loop runs
\* every task it was given: a _cleanup task that was made runs.
InitAlone == InitWith(MaxTxAlone, {0})

NextAlone ==
    \/ SendOptions
    \/ SendRegister
    \/ SendInvite
    \/ AddCredentials
    \/ ReceiveRequest
    \/ ReceiveResponse
    \/ SendResponse
    \/ SendProvisionalResponse
    \/ UpdateDialogFromResponse
    \/ TerminateDialog
    \/ TimerFired
    \/ HandlerResumes
    \/ Cleanup
    \/ Advance

LiveSpec == InitAlone /\ [][NextAlone]_vars /\ WF_vars(Cleanup)

\* One dialog made by a peer's INVITE, and the BYEs the application sends and
\* the peer sends in it, one after the other.
InitDialog == InitWith(MaxTxDialog, {0})

NextDialog ==
    \/ SendBye
    \/ ReceiveRequest
    \/ ReceiveResponse
    \/ UpdateDialogFromResponse
    \/ TimerFired
    \/ HandlerResumes
    \/ Cleanup
    \/ Advance

SpecDialog == InitDialog /\ [][NextDialog]_vars

\* One transaction of any kind, for a SIPTimers object with the default T2 or
\* with T2 = 64*T1, over a transport whose send works or raises.
InitAloneEnv == InitEnv(MaxTxAlone, {0}, {T2, 64 * T1}, BOOLEAN)

SpecAloneEnv == InitAloneEnv /\ [][NextAlone]_vars

\* REGISTER requests and their re-issues, for a registrar that challenges
\* whatever it receives, every response arriving before the first timer.
InitChain == InitWith(MaxChain, {0})

NextChain ==
    \/ SendRegister
    \/ AddCredentials
    \/ ReceiveResponse
    \/ Cleanup

SpecChain == InitChain /\ [][NextChain]_vars

\* What arrives from the network, valid or not, matched by a transaction or
\* not, with the loggers recorded.
InitInbound == InitLogging(MaxTx, {0}, {T2}, {FALSE}, {TRUE})

NextInbound ==
    \/ SendOptions
    \/ SendInvite
    \/ ReceiveRequest
    \/ ReceiveResponse
    \/ ReceiveRaw
    \/ TimerFired
    \/ HandlerResumes
    \/ Cleanup
    \/ Advance

SpecInbound == InitInbound /\ [][NextInbound]_vars

\* -------------------------------------------------- messages and their text
\* The messages an application makes with create_request, create_response,
\* add_header and set_body: a request or a response, two headers in one order
\* or the other, a body or none, with the Content-Length of the body as a
\* header (set_body) or without (a body given to create_request).
Messages ==
    LET FirstLines ==
            {<<m, "sip:bob@example.test", 0, <<>> >> : m \in {"INVITE", "OPTIONS"}}
            \cup {<<"", "", 200, <<"OK">> >>, <<"", "", 486, <<"Busy", SP, "Here">> >>}
        Via == SIPHeader(<<"Via">>, <<"SIP/2.0/UDP", SP, "host;branch=z9hG4bK1">>)
        From == SIPHeader(<<"From">>, <<"<sip", COLON, "alice@example.test>;tag=1">>)
        HeaderLists == {<<Via, From>>, <<From, Via>>}
        \* one line; lines that end with CRLF, as SDPSession gives them; an
        \* empty line inside; a colon and a space inside
        Contents ==
            {<<"v=0">>,
             <<"v=0", CRLF>>,
             <<"v=0", CRLF, "s=x", CRLF>>,
             <<"v=0", CRLF, CRLF, "s=x">>,
             <<"a=b", COLON, "c=d", SP, "e=f">>}
        ContentLength(content) ==
            SIPHeader(<<"Content-Length">>, <<str(content_length(content))>>)
    IN
    {SIPMessage(f[1], f[2], f[3], f[4], h, None) : f \in FirstLines, h \in HeaderLists}
    \cup {SIPMessage(f[1], f[2], f[3], f[4], Append(h, ContentLength(<<>>)), None) :
             f \in FirstLines, h \in HeaderLists}
    \cup {SIPMessage(f[1], f[2], f[3], f[4], h, SIPBody(c)) :
             f \in FirstLines, h \in HeaderLists, c \in Contents}
    \cup {SIPMessage(f[1], f[2], f[3], f[4], Append(h, ContentLength(c)), SIPBody(c)) :
             f \in FirstLines, h \in HeaderLists, c \in Contents}

InitMessage ==
    /\ limit = 0
    /\ dropFirst = 0
    /\ timersGiven = FALSE
    /\ t2 = T2
    /\ sendFails = FALSE
    /\ loggerOn = FALSE
    /\ txs = <<>>
    /\ table = [b \in {} |-> 0]
    /\ dialogs = [d \in {} |-> 0]
    /\ credentials = {}
    /\ nonce_count = [n \in {} |-> 0]
    /\ dropLeft = 0
    /\ log = <<>>
    /\ original \in Messages
    /\ wire = <<>>
    /\ parsed = NoMsg
    /\ local_offer = NoMsg
    /\ remote_answer = NoMsg
    /\ negotiated = NoMsg

\* original.encode()
Encode ==
    /\ original # NoMsg
    /\ wire = <<>>
    /\ wire' = SIPMessage_encode(original)
    /\ UNCHANGED <<limit, dropFirst, timersGiven, t2, sendFails, loggerOn, txs, table,
                   dialogs, credentials, nonce_count, dropLeft, log, original, parsed,
                   local_offer, remote_answer, negotiated>>

\* SIPMessage.parse(text), of the text encode gave
Parse ==
    /\ wire # <<>>
    /\ parsed = NoMsg
    /\ parsed' = SIPMessage_parse(wire)
    /\ UNCHANGED <<limit, dropFirst, timersGiven, t2, sendFails, loggerOn, txs, table,
                   dialogs, credentials, nonce_count, dropLeft, log, original, wire,
                   local_offer, remote_answer, negotiated>>

NextMessage ==
    \/ Encode
    \/ Parse

SpecMessage == InitMessage /\ [][NextMessage]_vars

\* --------------------------------------------------- SDP offer and answer
\* An SDP text is the sequence of its lines, a line the record of what the
\* regular expression of its kind captures: c= (addr), m= (media, port),
\* a=rtpmap (pt, encoding, clock, channels), a=<direction>, a=rtcp-mux.
\* A dict is the sequence of its items in insertion order; "" is None for
\* an address or a direction and -1 for a payload type.
SDPParser_parse(sdp_text) ==
    LET put(rtpmap, r) ==
            IF \E i \in 1..Len(rtpmap) : rtpmap[i].pt = r.pt
            THEN [i \in 1..Len(rtpmap) |-> IF rtpmap[i].pt = r.pt THEN r ELSE rtpmap[i]]
            ELSE Append(rtpmap, r)
        MediaDesc(ln) ==
            [media |-> ln.media, port |-> ln.port, conn_addr |-> "", direction |-> "",
             rtpmap |-> <<>>, rtcp_mux |-> FALSE]
        RECURSIVE scan(_, _)
        scan(lines, st) ==
            IF lines = <<>> THEN st
            ELSE LET ln == Head(lines) IN
                 scan(Tail(lines),
                      IF ln.k = "c" THEN [st EXCEPT !.conn = ln.addr]
                      ELSE IF ln.k = "m"
                           THEN [st EXCEPT !.media = IF st.current_md = <<>> THEN @
                                                     ELSE @ \o st.current_md,
                                           !.current_md = <<MediaDesc(ln)>>]
                      ELSE IF st.current_md # <<>>
                           THEN IF ln.k = "rtpmap"
                                THEN [st EXCEPT !.current_md[1].rtpmap =
                                         put(@, [pt |-> ln.pt, encoding |-> ln.encoding,
                                                 clock |-> ln.clock, channels |-> ln.channels])]
                                ELSE IF ln.k = "dir"
                                THEN [st EXCEPT !.current_md[1].direction = ln.dir]
                                ELSE IF ln.k = "rtcp-mux"
                                THEN [st EXCEPT !.current_md[1].rtcp_mux = TRUE]
                                ELSE st
                      ELSE IF ln.k = "dir" THEN [st EXCEPT !.session_dir = ln.dir]
                      ELSE st)
        end == scan(sdp_text, [conn |-> "", media |-> <<>>, current_md |-> <<>>,
                               session_dir |-> ""])
        media == end.media \o end.current_md
    IN [type |-> "sdp",
        connection |-> end.conn,
        media |-> [i \in 1..Len(media) |->
                     [media[i] EXCEPT
                        !.direction = IF @ # "" THEN @
                                      ELSE IF end.session_dir # "" THEN end.session_dir
                                      ELSE "sendrecv",
                        !.conn_addr = IF @ # "" THEN @ ELSE end.conn]]]

\* The SessionCapability of AdvancedSDPNegotiator: audio with PCMU (static 0),
\* PCMA (static 8) and telephone-event (dynamic), no video.
local_caps ==
    [audio |-> <<[codecs |-> <<[name |-> "PCMU", clock |-> 8000, channels |-> 1,
                               static_pt |-> 0],
                              [name |-> "PCMA", clock |-> 8000, channels |-> 1,
                               static_pt |-> 8],
                              [name |-> "telephone-event", clock |-> 8000, channels |-> 1,
                               static_pt |-> -1]>>]>>,
     video |-> <<>>]

\* A media line of the offer is skipped when the answer has no line at its
\* index, when the answer's port is 0 and when there is no capability for
\* its media.
negotiate_from_offer_answer(offer, answer, caps) ==
    LET lower(w) == IF w = "PCMU" THEN "pcmu" ELSE IF w = "PCMA" THEN "pcma" ELSE w
        key(r) == <<lower(r.encoding), r.clock, r.channels>>
        ckey(c) == <<lower(c.name), c.clock, c.channels>>
        first(rtpmap, k) ==
            LET hits == {i \in 1..Len(rtpmap) : key(rtpmap[i]) = k}
            IN IF hits = {} THEN -1
               ELSE rtpmap[CHOOSE i \in hits : \A j \in hits : i <= j].pt
        RECURSIVE formats(_, _, _)
        formats(items, m_offer, codecs) ==
            IF items = <<>> THEN <<>>
            ELSE LET rtpmap_ans == Head(items)
                     hits == {i \in 1..Len(codecs) : ckey(codecs[i]) = key(rtpmap_ans)}
                     rest == formats(Tail(items), m_offer, codecs)
                 IN IF hits = {} THEN rest
                    ELSE LET codec == codecs[CHOOSE i \in hits : \A j \in hits : i >= j]
                             pt_off == first(m_offer.rtpmap, key(rtpmap_ans))
                             send_pt == IF pt_off # -1 THEN pt_off ELSE codec.static_pt
                         IN IF send_pt = -1 THEN rest
                            ELSE <<[recv_pt |-> rtpmap_ans.pt, send_pt |-> send_pt,
                                    codec |-> codec]>> \o rest
        RECURSIVE walk(_)
        walk(idx) ==
            IF idx > Len(offer.media) THEN <<>>
            ELSE LET m_offer == offer.media[idx]
                     mcap == IF m_offer.media = "audio" THEN caps.audio ELSE caps.video
                 IN IF idx > Len(answer.media) THEN walk(idx + 1)
                    ELSE LET m_ans == answer.media[idx] IN
                         IF m_ans.port = 0 THEN walk(idx + 1)
                         ELSE IF mcap = <<>> THEN walk(idx + 1)
                         ELSE <<[media |-> m_offer.media,
                                 remote_addr |-> IF m_offer.conn_addr # ""
                                                 THEN m_offer.conn_addr
                                                 ELSE offer.connection,
                                 remote_port |-> m_ans.port,
                                 direction |-> IF m_ans.direction # "" THEN m_ans.direction
                                               ELSE "sendrecv",
                                 formats |-> formats(m_ans.rtpmap, m_offer, mcap[1].codecs),
                                 rtcp_mux |-> m_ans.rtcp_mux /\ m_offer.rtcp_mux]>>
                              \o walk(idx + 1)
    IN walk(1)

\* The offers: what build_offer makes of the capabilities at the local
\* address, the same without the rtpmap lines of the static payload types,
\* and one with a second audio line.  The answers of a peer at its own
\* address: the audio line accepted or rejected, PCMU with or without an
\* rtpmap line and in either case of letters, telephone-event at the offer's
\* payload type or at another, a direction or none, a second line or none.
InitSdp ==
    LET c(addr) == [k |-> "c", addr |-> addr]
        m(media, port) == [k |-> "m", media |-> media, port |-> port]
        a(pt, encoding, clock) ==
            [k |-> "rtpmap", pt |-> pt, encoding |-> encoding, clock |-> clock,
             channels |-> 1]
        dir(d) == [k |-> "dir", dir |-> d]
        mux == [k |-> "rtcp-mux"]
        head == <<c("10.0.0.1"), m("audio", 5004), dir("sendrecv"), mux>>
        events == a(101, "telephone-event", 8000)
        second == <<m("audio", 5008), events>>
        Offers ==
            {head \o <<a(0, "PCMU", 8000), a(8, "PCMA", 8000), events>>,
             head \o <<events>>,
             head \o <<a(0, "PCMU", 8000), events>> \o second}
        Answers ==
            {<<c("192.0.2.2"), m("audio", port)>> \o d \o pcmu
               \o <<a(pt, "telephone-event", 8000)>> \o v :
                port \in {0, 6000},
                d \in {<<>>, <<dir("sendonly")>>, <<mux>>},
                pcmu \in {<<>>, <<a(0, "PCMU", 8000)>>, <<a(0, "pcmu", 8000)>>},
                pt \in {101, 96},
                v \in {<<>>, <<m("audio", 0)>>,
                       <<m("audio", 6002), a(96, "telephone-event", 8000)>>}}
    IN
    /\ limit = 0
    /\ dropFirst = 0
    /\ timersGiven = FALSE
    /\ t2 = T2
    /\ sendFails = FALSE
    /\ loggerOn = FALSE
    /\ txs = <<>>
    /\ table = [b \in {} |-> 0]
    /\ dialogs = [d \in {} |-> 0]
    /\ credentials = {}
    /\ nonce_count = [n \in {} |-> 0]
    /\ dropLeft = 0
    /\ log = <<>>
    /\ original = NoMsg
    /\ wire = <<>>
    /\ parsed = NoMsg
    /\ local_offer \in {SDPParser_parse(t) : t \in Offers}
    /\ remote_answer \in {SDPParser_parse(t) : t \in Answers}
    /\ negotiated = NoMsg

\* AdvancedSDPNegotiator.negotiate_from_offer_answer(local_offer,
\* remote_answer, local_caps)
Negotiate ==
    /\ local_offer # NoMsg
    /\ negotiated = NoMsg
    /\ negotiated' = [type |-> "result",
                      out |-> negotiate_from_offer_answer(local_offer, remote_answer,
                                                          local_caps)]
    /\ UNCHANGED <<limit, dropFirst, timersGiven, t2, sendFails, loggerOn, txs, table,
                   dialogs, credentials, nonce_count, dropLeft, log, original, wire, parsed,
                   local_offer, remote_answer>>

NextSdp == Negotiate

SpecSdp == InitSdp /\ [][NextSdp]_vars

\* =================================================================== claims
Objects == 1..Len(txs)

InTable(o) == Lookup(table, txs[o].branch) = o

\* ------------------------------------------------------------------- C1
TableKeyedByBranch == \A b \in DOMAIN table : table[b] \in Objects /\ txs[table[b]].branch = b

EntryKept == \A b \in DOMAIN table : b \in DOMAIN table' => table'[b] = table[b]

TerminatedInTable(o) == o \in Objects /\ txs[o].state = "TERMINATED" /\ InTable(o)

C2_TerminatedAbsorbing ==
    [][\A o \in Objects : txs[o].state = "TERMINATED" => txs'[o].state = "TERMINATED"]_vars

\* A non-INVITE client transaction that a final response terminated and whose
\* Timer F fired afterwards, before its _cleanup: it is still TERMINATED.
C2_Witness ==
    \E o \in Objects :
        /\ txs[o].state = "TERMINATED"
        /\ txs[o].nfinal = 1
        /\ "F" \in txs[o].timeouts
        /\ txs[o].cleanups = 2

RetransmitTimer(o) == IF txs[o].kind = "INVITE_CLIENT" THEN "A" ELSE "E"

Handled(m) == Apply(process_incoming_message(Cur, m))

\* The challenges that the step may have handled: on_final_response was called
\* in it with their status code for the transaction of their branch.
\* <<transaction, challenge>> pairs.
ChallengesTaken ==
    UNION {{<<log'[i].o, m>> : m \in {c \in ChallengeResponses(log'[i].branch) :
                                        c.status = log'[i].status}} :
             i \in {e \in 1..Len(log') : log'[e].ev = "on_final_response"}}

\* The step made one transaction, a client transaction in a table entry of its
\* own, whose request re-issues the request of transaction o after status st.
Reissued(o, st) ==
    /\ Len(txs') = Len(txs) + 1
    /\ LET n == Len(txs')
           r == txs'[n].request
           q == txs[o].request
       IN /\ txs'[n].kind = txs[o].kind
          /\ r.method = q.method /\ r.uri = q.uri
          /\ r.from = q.from /\ r.fromTag = q.fromTag
          /\ r.to = q.to /\ r.toTag = q.toTag
          /\ r.callId = q.callId /\ r.body = q.body
          /\ r.branch # q.branch
          /\ r.branch \notin DOMAIN table
          /\ Lookup(table', r.branch) = n
          /\ Lookup(table', q.branch) = o
          /\ r.cseq = q.cseq + 1 /\ r.cseqMethod = q.cseqMethod
          /\ st = 401 => r.authorization # NoAuth
          /\ st = 407 => r.proxy_authorization # NoAuth

\* C6 as the specification states it: every 401/407 given to
\* on_final_response, with credentials stored for the realm of the challenge,
\* is followed in the same step by the re-issue of the request.
C6_ReissueWithCredentials ==
    [][\A p \in ChallengesTaken :
         (p[2].realm \in credentials /\ Handled(p[2]))
         => Reissued(p[1], p[2].status)]_vars

\* C6, amended: the same for the challenges whose algorithm the authenticator
\* implements (the MD5 and SHA-256 families, MD5 when the challenge names none).
C6_ReissueWithCredentialsAndKnownAlgorithm ==
    [][\A p \in ChallengesTaken :
         (p[2].realm \in credentials /\ p[2].algorithm \in Supported /\ Handled(p[2]))
         => Reissued(p[1], p[2].status)]_vars

\* An INVITE was challenged with 407 and re-issued with Proxy-Authorization.
C6_Witness ==
    \E n \in Objects :
        /\ txs[n].origin # 0
        /\ txs[n].kind = "INVITE_CLIENT"
        /\ txs[n].request.proxy_authorization # NoAuth
        /\ txs[n].request.cseq = 2

Sends(l) == {i \in 1..Len(l) : l[i].ev \in {"sent", "dropped"}}

Count(nc, nonce) == IF nonce \in DOMAIN nc THEN nc[nonce] ELSE 0

Headers(request) == {request.authorization, request.proxy_authorization} \ {NoAuth}

\* The authorization headers of the request of a transaction made by the step
\* that the request it re-issues did not have.
NewHeaders ==
    UNION {Headers(txs'[n].request) \ Headers(txs[txs'[n].origin].request) :
             n \in {i \in (Len(txs) + 1)..Len(txs') : txs'[i].origin # 0}}

\* C8: a step raises the counter of a nonce by one or leaves it; the header
\* of a re-issue carries the raised counter of its nonce, one more than
\* before (1 at the first use), and the counters of the other nonces stay.
C8_NonceCountIncreases ==
    [][/\ \A nonce \in Nonces :
            Count(nonce_count', nonce) \in
                {Count(nonce_count, nonce), Count(nonce_count, nonce) + 1}
       /\ \A h \in NewHeaders :
            /\ h.nc = Count(nonce_count, h.nonce) + 1
            /\ Count(nonce_count', h.nonce) = h.nc
            /\ \A other \in Nonces \ {h.nonce} :
                 Count(nonce_count', other) = Count(nonce_count, other)]_vars

\* A re-issue was challenged with the nonce of its own header and re-issued
\* again: the second header of that nonce carries the count 2.
C8_Witness ==
    \E n \in Objects :
        /\ txs[n].origin # 0
        /\ txs[txs[n].origin].origin # 0
        /\ \E h \in Headers(txs[n].request) : h.nonce = "n1" /\ h.nc = 2

\* ------------------------------------------------------------------- C9
HasDialog(o) == DialogId(txs[o].request) \in DOMAIN dialogs

\* C9: the INVITE of every INVITE client transaction that send_invite began
\* and of every INVITE server transaction has a dialog in the dialog table,
\* under its Call-ID and From tag.
C9_InviteCreatesDialog ==
    \A o \in Objects :
        /\ (txs[o].kind = "INVITE_CLIENT" /\ txs[o].origin = 0) => HasDialog(o)
        /\ txs[o].kind = "INVITE_SERVER" => HasDialog(o)

\* ------------------------------------------------------------------ C10
\* C10: in a step that begins no transaction (the dialog is not made anew), a
\* remote tag that is set stays as it is, and so does the local tag.
C10_TagsFrozen ==
    [][Len(txs') = Len(txs) =>
         \A d \in DOMAIN dialogs :
            /\ d \in DOMAIN dialogs'
            /\ dialogs'[d].local_tag = dialogs[d].local_tag
            /\ dialogs[d].remote_tag # 0 =>
                   dialogs'[d].remote_tag = dialogs[d].remote_tag]_vars

\* ------------------------------------------------------------------ C11
\* C11: in the step in which an INVITE client transaction takes a 2xx (it
\* enters ACCEPTED, on_final_response was called), the dialog of its INVITE,
\* under the Call-ID and From tag of the request, is CONFIRMED afterwards.
C11_SuccessConfirmsDialog ==
    [][\A o \in Objects :
         (/\ txs[o].kind = "INVITE_CLIENT"
          /\ txs[o].state # "ACCEPTED"
          /\ txs'[o].state = "ACCEPTED")
         => /\ DialogId(txs[o].request) \in DOMAIN dialogs'
            /\ dialogs'[DialogId(txs[o].request)].state = "CONFIRMED"]_vars

\* ------------------------------------------------------------------ C12
\* The transactions the step made.
Made == (Len(txs) + 1)..Len(txs')

\* The step sent a BYE on dialog d (send_bye) / took a BYE of a peer in it.
SentBye(d) ==
    \E n \in Made :
        /\ txs'[n].kind = "NON_INVITE_CLIENT"
        /\ txs'[n].request.method = "BYE"
        /\ DialogId(txs'[n].request) = d

ReceivedBye(d) ==
    \E n \in Made :
        /\ txs'[n].kind = "NON_INVITE_SERVER"
        /\ txs'[n].request.method = "BYE"
        /\ DialogId(txs'[n].request) = d

\* C12: a step that sends or receives a BYE in a CONFIRMED dialog leaves the
\* dialog TERMINATED.
C12_ByeTerminatesDialog ==
    [][\A d \in DOMAIN dialogs :
         (dialogs[d].state = "CONFIRMED" /\ (SentBye(d) \/ ReceivedBye(d)))
         => dialogs'[d].state = "TERMINATED"]_vars

\* ------------------------------------------------------------------ C13
\* The step made dialog d anew (create_dialog_from_request, for an INVITE of
\* a peer).
DialogMade(d) ==
    \E n \in Made : txs'[n].kind = "INVITE_SERVER" /\ DialogId(txs'[n].request) = d

\* The transactions that made dialog d; the dialog object in the table is the
\* one the last of them made.
Makers(d) ==
    {k \in Objects : txs[k].kind = "INVITE_SERVER" /\ DialogId(txs[k].request) = d}

\* The BYEs sent on the dialog object that is d now.
ByesSent(d) ==
    {o \in Objects :
        /\ txs[o].kind = "NON_INVITE_CLIENT"
        /\ txs[o].request.method = "BYE"
        /\ DialogId(txs[o].request) = d
        /\ \A k \in Makers(d) : k < o}

Answered(n, status) ==
    \E i \in 1..Len(log') :
        /\ log'[i].ev \in {"sent", "dropped"}
        /\ log'[i].o = n
        /\ log'[i].status = status

\* C14: a step that takes a request of a peer in a dialog that exists (not an
\* INVITE, which makes the dialog) either accepts it, its CSeq number being
\* above remote_cseq (0 for None), and remote_cseq is that number afterwards,
\* or leaves the dialog as it is and answers 500 (nothing, to an ACK).
C14_RemoteCSeqChecked ==
    [][\A n \in Made :
         LET r == txs'[n].request
             d == DialogId(r)
         IN (txs'[n].kind = "NON_INVITE_SERVER" /\ d \in DOMAIN dialogs)
            => /\ d \in DOMAIN dialogs'
               /\ IF r.cseq > dialogs[d].remote_cseq
                  THEN dialogs'[d].remote_cseq = r.cseq
                  ELSE /\ dialogs'[d] = dialogs[d]
                       /\ r.method # "ACK" => Answered(n, 500)
                       /\ r.method = "ACK" => Sends(log') = {}]_vars

\* --------------------------------------------------------------- C15, C16
\* The requests with method ACK that the step gave to the transport.
AcksSent == {i \in Sends(log') : log'[i].method = "ACK"}

\* on_timeout was called in the step for transaction o with the timer.
TimedOut(o, timer) ==
    \E i \in 1..Len(log') :
        log'[i].ev = "on_timeout" /\ log'[i].o = o /\ log'[i].timer = timer

\* C15: the step in which an INVITE client transaction takes a 3xx-6xx sends
\* an ACK with the branch of the INVITE and leaves the transaction COMPLETED
\* with Timer D running; the step in which Timer D fires leaves it TERMINATED.
C15_FailureAckedInTransaction ==
    [][\A o \in Objects :
         /\ (/\ txs[o].kind = "INVITE_CLIENT"
             /\ txs[o].state \in {"TRYING", "PROCEEDING"}
             /\ \E i \in 1..Len(log') :
                  /\ log'[i].ev = "on_final_response"
                  /\ log'[i].o = o
                  /\ log'[i].status >= 300)
            => /\ \E i \in AcksSent : log'[i].branch = txs[o].branch
               /\ txs'[o].state = "COMPLETED"
               /\ txs'[o].timers["D"] > 0
         /\ (txs[o].kind = "INVITE_CLIENT" /\ TimedOut(o, "D"))
            => txs'[o].state = "TERMINATED"]_vars

\* C16: the step in which an INVITE client transaction takes a 2xx sends an
\* ACK that is not sent by the transaction, with another branch than the
\* INVITE and with the CSeq number of the INVITE; the transaction sends no ACK.
C16_SuccessAckedOutsideTransaction ==
    [][\A o \in Objects :
         (/\ txs[o].kind = "INVITE_CLIENT"
          /\ txs[o].state \in {"TRYING", "PROCEEDING"}
          /\ txs'[o].state = "ACCEPTED")
         => /\ \E i \in AcksSent :
                 /\ log'[i].o # o
                 /\ log'[i].branch # txs[o].branch
                 /\ log'[i].cseq = txs[o].request.cseq
            /\ \A i \in AcksSent : log'[i].o # o]_vars

\* ------------------------------------------------------------------ C17
\* C17: a step in which a send of transaction o fails (on_transport_error is
\* called for it) leaves the transaction TERMINATED, with no retransmission
\* timer running.
C17_TransportErrorTerminates ==
    [][\A o \in 1..Len(txs') :
         (\E i \in 1..Len(log') : log'[i].ev = "on_transport_error" /\ log'[i].o = o)
         => /\ txs'[o].state = "TERMINATED"
            /\ \A tt \in {"A", "E", "G"} : txs'[o].timers[tt] < 0]_vars

\* ------------------------------------------------------------------ C18
\* C18: the step in which Timer B, F or H of a transaction expires (its sleep
\* is over and its task runs to the end) calls on_timeout with that timer and
\* leaves the transaction TERMINATED.
C18_TimeoutTerminates ==
    [][\A o \in Objects : \A tt \in {"B", "F", "H"} :
         (txs[o].timers[tt] = 0 /\ txs'[o].timers[tt] = Done)
         => /\ TimedOut(o, tt)
            /\ txs'[o].state = "TERMINATED"]_vars

\* ------------------------------------------------------------------ C19
\* C19: in a step taken with transaction o TERMINATED, on_timeout is not
\* called for o, o gives nothing to the transport, and no timer of o is
\* started or started again.
C19_NoLateTimerEvent ==
    [][\A o \in Objects :
         txs[o].state = "TERMINATED"
         => /\ \A i \in 1..Len(log') :
                 log'[i].o = o => log'[i].ev \notin {"on_timeout", "sent", "dropped"}
            /\ \A tt \in TimerType :
                 txs'[o].timers[tt] >= 0
                 => (txs[o].timers[tt] >= 0 /\ txs'[o].timers[tt] <= txs[o].timers[tt])]_vars

\* ------------------------------------------------------------------ C20
\* C20: the step in which a non-INVITE client transaction in TRYING or
\* PROCEEDING takes a final response leaves it COMPLETED with Timers E and F
\* stopped and Timer K running; from COMPLETED the transaction becomes
\* TERMINATED only in the step in which Timer K fires.
C20_FinalResponseCompletes ==
    [][\A o \in Objects :
         txs[o].kind = "NON_INVITE_CLIENT"
         => /\ (/\ txs[o].state \in {"TRYING", "PROCEEDING"}
                /\ \E i \in 1..Len(log') :
                     log'[i].ev = "on_final_response" /\ log'[i].o = o)
               => /\ txs'[o].state = "COMPLETED"
                  /\ txs'[o].timers["E"] < 0
                  /\ txs'[o].timers["F"] < 0
                  /\ txs'[o].timers["K"] > 0
            /\ (txs[o].state = "COMPLETED" /\ txs'[o].state = "TERMINATED")
               => TimedOut(o, "K")]_vars

\* ------------------------------------------------------------------ C21
\* The responses a peer may send now whose branch is in no entry of the table:
\* answers to transactions that were removed, and answers to nothing.
Unmatched == {m \in InboundResponses : m.branch \notin DOMAIN table}

\* C21: the handling of a response whose branch matches no transaction
\* returns the state it was given (every transaction with its state and its
\* timers, the table, the dialogs, the authenticator), makes no callback and
\* sends nothing: its only trace is the warning of the logger.
C21_UnmatchedResponseDropped ==
    \A m \in Unmatched :
        process_incoming_message(Cur, m) = Warned(Cur, "warning", m)

\* A final response came for a transaction that was removed from the table,
\* while another transaction was in the table with its timers running.
C21_Witness ==
    /\ Len(log) = 1
    /\ log[1].ev = "warning"
    /\ log[1].status = 200
    /\ \E o \in Objects : txs[o].branch = log[1].branch /\ ~InTable(o)
    /\ \E n \in Objects : InTable(n) /\ Armed(txs[n]) # {}

\* ------------------------------------------------------------------ C22
\* The raw messages that fail parsing (a first line parse cannot read) or
\* validation (no method and no status code; a request without one of Via,
\* From, To, Call-ID, CSeq, Max-Forwards).
Failing ==
    {raw \in RawMessages :
        \/ raw.first \notin {"request", "response"}
        \/ raw.first = "request" /\ \E h \in REQUIRED_HEADERS : h \notin raw.names}

\* C22: the handling of a raw message that fails parsing or validation
\* returns the state it was given: no transaction is made, no transaction
\* and no dialog changes, nothing is sent and no callback is made; its only
\* trace is the error of the logger.
C22_InvalidMessageDropped ==
    \A raw \in Failing :
        process_incoming_raw_message(Cur, raw) = Warned(Cur, "error", NoMsg)

\* An invalid message came while a transaction was in the table with its
\* timers running and a dialog was in the dialog table.
C22_Witness ==
    /\ Len(log) = 1
    /\ log[1].ev = "error"
    /\ DOMAIN dialogs # {}
    /\ \E n \in Objects : InTable(n) /\ Armed(txs[n]) # {}

\* ------------------------------------------------------------------ C23
\* The bytes of the body of a message: none for no body.
BodyBytes(msg) == IF msg.body.present THEN msg.body.content ELSE <<>>

\* A message as it goes on the wire: a body comes with its Content-Length.
WellFormed(msg) ==
    msg.body.present =>
        get_header(msg, "content-length") = <<str(content_length(msg.body.content))>>

LogicallyEqual(a, b) ==
    /\ a.type = b.type
    /\ a.method = b.method
    /\ a.uri = b.uri
    /\ a.status_code = b.status_code
    /\ a.reason_phrase = b.reason_phrase
    /\ a.headers = b.headers
    /\ BodyBytes(a) = BodyBytes(b)

\* C23: the message parse makes of the encoding of a well-formed message is
\* logically equal to the message: the same method and Request-URI or the
\* same status code and reason, the same headers in the same order, and the
\* same body bytes.
C23_ParseOfEncodeIsEqual ==
    (parsed # NoMsg /\ WellFormed(original)) => LogicallyEqual(parsed, original)

\* ------------------------------------------------------------------ C24
\* on_final_response was called in the step for transaction o.
TookFinal(o) ==
    \E i \in 1..Len(log') : log'[i].ev = "on_final_response" /\ log'[i].o = o

\* C24: the step in which an INVITE client transaction in TRYING or
\* PROCEEDING takes a final response leaves Timers A and B stopped; in no
\* step after it does the transaction send its INVITE again or report the
\* expiry of Timer B.
C24_FinalStopsTimersAB ==
    [][\A o \in Objects :
         txs[o].kind = "INVITE_CLIENT"
         => /\ (txs[o].state \in {"TRYING", "PROCEEDING"} /\ TookFinal(o))
               => (txs'[o].timers["A"] < 0 /\ txs'[o].timers["B"] < 0)
            /\ txs[o].nfinal > 0
               => /\ ~TimedOut(o, "B")
                  /\ \A i \in Sends(log') : log'[i].o # o]_vars

\* ------------------------------------------------------------------ C25
\* C25: the step in which Timer L of a transaction in ACCEPTED expires
\* leaves the transaction TERMINATED (its _cleanup, which takes it out of the
\* table, is made by that transition).
C25_TimerLTerminates ==
    [][\A o \in Objects :
         (txs[o].state = "ACCEPTED" /\ TimedOut(o, "L"))
         => (txs'[o].state = "TERMINATED" /\ txs'[o].cleanups > 0)]_vars

\* ------------------------------------------------------------------ C26
\* C26: the step that takes a new INVITE of a peer answers 100 and leaves
\* the INVITE server transaction it made in PROCEEDING with Timers G and H
\* not started; the step in which the handler goes on after its pause (the
\* 200 OK) leaves the transaction ACCEPTED, the 200 stored and given to the
\* transport, and Timer L running.
C26_TryingThenOk ==
    [][/\ \A n \in Made :
            txs'[n].kind = "INVITE_SERVER"
            => /\ Answered(n, 100)
               /\ txs'[n].state = "PROCEEDING"
               /\ txs'[n].timers["G"] < 0
               /\ txs'[n].timers["H"] < 0
       /\ \A o \in Objects :
            (txs[o].kind = "INVITE_SERVER" /\ txs[o].sleep = 0 /\ txs'[o].sleep = Off)
            => /\ txs'[o].state = "ACCEPTED"
               /\ txs'[o].response # NoMsg
               /\ txs'[o].response.status = 200
               /\ Answered(o, 200)
               /\ txs'[o].timers["L"] > 0]_vars

\* ------------------------------------------------------------------ C27
\* on_provisional_response was called in the step for transaction o.
TookProvisional(o) ==
    \E i \in 1..Len(log') : log'[i].ev = "on_provisional_response" /\ log'[i].o = o

\* C27: the step in which an INVITE client transaction in TRYING takes a
\* provisional response leaves it PROCEEDING with Timer A stopped and Timer B
\* as it was; while the transaction stays PROCEEDING Timer A stays stopped,
\* the transaction gives nothing to the transport, and Timer B, when it is
\* running, goes on running.
C27_ProvisionalStopsTimerA ==
    [][\A o \in Objects :
         txs[o].kind = "INVITE_CLIENT"
         => /\ (txs[o].state = "TRYING" /\ TookProvisional(o))
               => /\ txs'[o].state = "PROCEEDING"
                  /\ txs'[o].timers["A"] < 0
                  /\ txs'[o].timers["B"] = txs[o].timers["B"]
            /\ (txs[o].state = "PROCEEDING" /\ txs'[o].state = "PROCEEDING")
               => /\ txs'[o].timers["A"] < 0
                  /\ \A i \in Sends(log') : log'[i].o # o
                  /\ txs[o].timers["B"] >= 0
                     => /\ txs'[o].timers["B"] >= 0
                        /\ txs'[o].timers["B"] <= txs[o].timers["B"]]_vars

\* An INVITE was sent again once, then a provisional response came: Timer B
\* has run to its end in PROCEEDING with Timer A stopped and no other send.
C27_Witness ==
    \E o \in Objects :
        /\ txs[o].kind = "INVITE_CLIENT"
        /\ txs[o].state = "PROCEEDING"
        /\ txs[o].timers["A"] = Off
        /\ txs[o].timers["B"] = 0
        /\ txs[o].rc = 1

\* ------------------------------------------------------------------ C28
\* The intervals of the claim, for the default timers: the first, then the
\* one armed after the n-th retransmission (milliseconds).
DefaultIntervals == <<500, 1000, 2000, 4000, 4000, 4000, 4000, 4000>>

\* The step is the n-th retransmission of transaction o, on Timer tt.
Retransmitted(o, tt, n) ==
    /\ TimedOut(o, tt)
    /\ txs[o].rc = n - 1
    /\ txs'[o].rc = n

\* C28: a retransmission timer (A, E, G) that a step starts is armed with T1;
\* the step of the n-th retransmission arms it with min(T2, 2^n * T1), for
\* the T2 of the SIPTimers object; with the default timers that is 500, 1000,
\* 2000, 4000, 4000, ... milliseconds.
C28_RetransmissionIntervals ==
    [][\A o \in 1..Len(txs') : \A tt \in {"A", "E", "G"} :
         /\ ((o \in Made \/ txs[o].timers[tt] = Off) /\ txs'[o].timers[tt] >= 0)
            => (txs'[o].timers[tt] = T1 /\ txs'[o].rc = 0)
         /\ \A n \in 1..max_retransmissions :
              (o \in Objects /\ Retransmitted(o, tt, n))
              => /\ txs'[o].timers[tt] = Min(t2, Pow2(n) * T1)
                 /\ t2 = T2 => txs'[o].timers[tt] = DefaultIntervals[n + 1]]_vars

\* The fourth retransmission of a request with the default timers: the
\* interval is 4 s again, 2^4 * T1 being capped at T2.
C28_Witness ==
    /\ t2 = T2
    /\ \E o \in Objects :
          /\ txs[o].rc = 4
          /\ txs[o].timers["E"] = 4000
          /\ "E" \in txs[o].timeouts

\* ------------------------------------------------------------------ C29
\* The caps of the claim.
Cap(kind) == IF kind \in {"INVITE_CLIENT", "INVITE_SERVER"} THEN 7 ELSE 10

\* C29: a transaction never has more retransmissions than the cap of its
\* kind, 7 for INVITE and 10 for non-INVITE; the step in which its
\* retransmission timer (A, E, G) fires retransmits while the count is below
\* the cap and leaves the transaction TERMINATED when the count is at the cap.
C29_RetransmissionCaps ==
    [][\A o \in Objects : \A tt \in {"A", "E", "G"} :
         /\ txs'[o].rc <= Cap(txs[o].kind)
         /\ TimedOut(o, tt)
            => IF txs[o].rc < Cap(txs[o].kind)
               THEN txs'[o].rc = txs[o].rc + 1 /\ txs'[o].state = txs[o].state
               ELSE txs'[o].state = "TERMINATED"]_vars

\* ------------------------------------------------------------------ C30
\* The step is the handling of an ACK with the branch of transaction o.
TookAck(o) ==
    \E m \in InboundRequests :
        m.method = "ACK" /\ m.branch = txs[o].branch /\ InTable(o) /\ Handled(m)

\* C30: the step in which an INVITE server transaction in ACCEPTED or in
\* COMPLETED takes an ACK leaves it CONFIRMED with Timers L, G and H stopped
\* and Timer I running; a CONFIRMED transaction gives nothing to the
\* transport, and the step in which its Timer I fires leaves it TERMINATED.
C30_AckConfirms ==
    [][\A o \in Objects :
         txs[o].kind = "INVITE_SERVER"
         => /\ (txs[o].state \in {"ACCEPTED", "COMPLETED"} /\ TookAck(o))
               => /\ txs'[o].state = "CONFIRMED"
                  /\ \A tt \in {"L", "G", "H"} : txs'[o].timers[tt] < 0
                  /\ txs'[o].timers["I"] > 0
            /\ txs[o].state = "CONFIRMED"
               => /\ \A i \in Sends(log') : log'[i].o # o
                  /\ txs'[o].state \in {"CONFIRMED", "TERMINATED"}
                  /\ txs'[o].state = "TERMINATED" <=> TimedOut(o, "I")]_vars

\* ------------------------------------------------------------------ C31
\* The step is the handling of a request that repeats the request of server
\* transaction o: the same branch and the same method.
TookRetransmission(o) ==
    \E m \in InboundRequests :
        /\ InTable(o)
        /\ m.branch = txs[o].branch
        /\ txs[o].request # NoMsg
        /\ m.method = txs[o].request.method
        /\ Handled(m)

\* C31: the step in which a server transaction (INVITE or non-INVITE) that is
\* in PROCEEDING or COMPLETED and has sent a response takes a retransmission of
\* its request gives that response to the transport again and leaves the
\* state and the stored response as they were.
C31_RetransmittedRequestResendsResponse ==
    [][\A o \in Objects :
         (/\ txs[o].kind \in ServerKinds
          /\ txs[o].state \in {"PROCEEDING", "COMPLETED"}
          /\ txs[o].response # NoMsg
          /\ TookRetransmission(o))
         => /\ \E i \in Sends(log') :
                  log'[i].o = o /\ log'[i].status = txs[o].response.status
            /\ txs'[o].state = txs[o].state
            /\ txs'[o].response = txs[o].response]_vars

\* ------------------------------------------------------------------ C32
\* The responses a peer may send now to client transaction o.
ResponsesTo(o) == {m \in InboundResponses : m.branch = txs[o].branch}

\* C32: the handling of a response (1xx, 2xx or higher) that matches a client
\* transaction in COMPLETED, ACCEPTED or TERMINATED returns the state it was
\* given: the transaction keeps its state, its request, its response and its
\* timers, no callback of the UA is made and nothing is sent.
C32_LateResponseDropped ==
    \A o \in Objects :
        (/\ txs[o].kind \in ClientKinds
         /\ InTable(o)
         /\ txs[o].state \in {"COMPLETED", "ACCEPTED", "TERMINATED"})
        => \A m \in ResponsesTo(o) : process_incoming_message(Cur, m) = Cur

\* An INVITE client transaction took its final response, its timer D or L is
\* running and the peer may send it a 2xx again.
C32_Witness ==
    \E o \in Objects :
        /\ txs[o].kind = "INVITE_CLIENT"
        /\ InTable(o)
        /\ txs[o].state \in {"COMPLETED", "ACCEPTED"}
        /\ txs[o].nfinal = 1
        /\ Armed(txs[o]) \cap {"D", "L"} # {}
        /\ \E m \in ResponsesTo(o) : m.status = 200

\* ------------------------------------------------------------------ C33
\* C33: in the step in which the INVITE client transaction of an INVITE that
\* send_invite made (not a re-issue) takes a final response of 300 or more
\* (it enters COMPLETED, on_final_response was called), the dialog of its
\* INVITE, under the Call-ID and From tag of the request, is TERMINATED
\* afterwards.
C33_FailureTerminatesDialog ==
    [][\A o \in Objects :
         (/\ txs[o].kind = "INVITE_CLIENT"
          /\ txs[o].origin = 0
          /\ txs[o].state # "COMPLETED"
          /\ txs'[o].state = "COMPLETED")
         => /\ DialogId(txs[o].request) \in DOMAIN dialogs'
            /\ dialogs'[DialogId(txs[o].request)].state = "TERMINATED"]_vars

\* ------------------------------------------------------------------ C34
\* The re-issues between transaction o and the request the application sent.
RECURSIVE Reissues(_)
Reissues(o) == IF txs[o].origin = 0 THEN 0 ELSE 1 + Reissues(txs[o].origin)

\* The largest budget that a chain of MaxChain transactions can exceed.
StaleRetryBudget == MaxChain - 2

\* C34: the re-issues of one request are bounded by a budget of the UA: no
\* client transaction is the re-issue of a re-issue ... of a request beyond
\* StaleRetryBudget re-issues, whatever the server answers.
C34_ReissuesBounded ==
    \A o \in Objects : Reissues(o) <= StaleRetryBudget

\* ------------------------------------------------------------------ C35
\* C35: for a SIPUserAgent constructed without a timers argument, the step
\* that begins a client transaction gives its request to the transport and
\* leaves its retransmission timer (A for INVITE, E otherwise) armed at T1
\* = 500 ms and its timeout timer (B or F) armed at 64*T1.
C35_DefaultTimers ==
    [][~timersGiven =>
         \A n \in Made :
            txs'[n].kind \in ClientKinds
            => /\ \E i \in Sends(log') :
                     log'[i].o = n /\ log'[i].method = txs'[n].request.method
               /\ txs'[n].kind = "INVITE_CLIENT"
                  => txs'[n].timers["A"] = 500 /\ txs'[n].timers["B"] = 64 * 500
               /\ txs'[n].kind = "NON_INVITE_CLIENT"
                  => txs'[n].timers["E"] = 500 /\ txs'[n].timers["F"] = 64 * 500]_vars

\* ------------------------------------------------------------------ C36
\* The indexes of the media lines of the offer that the answer accepts.
Accepted ==
    {i \in 1..Len(local_offer.media) :
        i <= Len(remote_answer.media) /\ remote_answer.media[i].port # 0}

\* A payload type of rtpmap with the name (letters of either case), the clock
\* and the channels of codec; -1 when there is none.
PtOf(rtpmap, codec) ==
    LET low(w) == IF w = "PCMU" THEN "pcmu" ELSE IF w = "PCMA" THEN "pcma" ELSE w
        hits == {i \in 1..Len(rtpmap) :
                    /\ low(rtpmap[i].encoding) = low(codec.name)
                    /\ rtpmap[i].clock = codec.clock
                    /\ rtpmap[i].channels = codec.channels}
    IN IF hits = {} THEN -1 ELSE rtpmap[CHOOSE i \in hits : TRUE].pt

\* C36: the list negotiate_from_offer_answer returns has one entry for every
\* media line of the offer that the answer accepts, in their order; the entry
\* has the connection address and the port of the answer's line, and every
\* format of it has the payload type of the answer as recv_pt and the
\* payload type of the offer (of its rtpmap, or the static one of the codec)
\* as send_pt, for the same name, clock and channels.
C36_NegotiatedFromAnswer ==
    negotiated # NoMsg =>
        /\ Len(negotiated.out) = Cardinality(Accepted)
        /\ \A n \in 1..Len(negotiated.out) :
              \E i \in Accepted :
                 /\ Cardinality({j \in Accepted : j <= i}) = n
                 /\ negotiated.out[n].media = local_offer.media[i].media
                 /\ negotiated.out[n].remote_addr = remote_answer.media[i].conn_addr
                 /\ negotiated.out[n].remote_port = remote_answer.media[i].port
                 /\ \A f \in 1..Len(negotiated.out[n].formats) :
                       LET nf == negotiated.out[n].formats[f] IN
                       /\ nf.recv_pt = PtOf(remote_answer.media[i].rtpmap, nf.codec)
                       /\ nf.send_pt = (IF PtOf(local_offer.media[i].rtpmap, nf.codec) # -1
                                        THEN PtOf(local_offer.media[i].rtpmap, nf.codec)
                                        ELSE nf.codec.static_pt)

\* ------------------------------------------------------------------ C37
\* The requests a peer may send now whose branch is in an entry of the table.
Matched == {m \in InboundRequests : m.branch \in DOMAIN table}

\* C37: the handling of a request whose branch is in the table makes no
\* transaction, leaves the table as it is and calls on_request_received for
\* no transaction, in every state: also while the handler of the first
\* request sleeps inside start.
C37_MatchedRequestMakesNoTransaction ==
    \A m \in Matched :
        LET r == process_incoming_message(Cur, m) IN
        /\ Len(r.txs) = Len(txs)
        /\ r.table = table
        /\ \A o \in Objects : r.txs[o].nreq = txs[o].nreq
        /\ \A i \in 1..Len(r.log) : r.log[i].ev # "on_request_received"

\* The handler of an INVITE sleeps inside start, after its 100, and the peer
\* may send the INVITE again.
C37_Witness ==
    \E o \in Objects :
        /\ txs[o].kind = "INVITE_SERVER"
        /\ InTable(o)
        /\ txs[o].sleep > 0
        /\ txs[o].nreq = 1
        /\ \E m \in Matched : m.method = "INVITE" /\ m.branch = txs[o].branch

\* ------------------------------------------------------------------ C38
\* The transactions that re-issue the request of transaction o.
ReissuesOf(o) == {n \in Objects : txs[n].origin = o}

\* C38: whatever responses came, and in whatever order, on_final_response was
\* called at most once for every client transaction, and at most one
\* transaction re-issues its request.
C38_OneFinalResponseCallback ==
    \A o \in Objects :
        txs[o].kind \in ClientKinds
        => /\ txs[o].nfinal <= 1
           /\ Cardinality(ReissuesOf(o)) <= 1

\* An INVITE was challenged and re-issued with credentials; its transaction
\* is still in the table and the peer may send the 401 or 407 again.
C38_Witness ==
    \E o \in Objects :
        /\ txs[o].kind = "INVITE_CLIENT"
        /\ InTable(o)
        /\ txs[o].nfinal = 1
        /\ Cardinality(ReissuesOf(o)) = 1
        /\ \E m \in ResponsesTo(o) : m.status \in {401, 407} /\ m.realm \in credentials

\* ------------------------------------------------------------------ C39
\* C39: in the step in which a non-INVITE client transaction takes a 401 or a
\* 407, the transaction is TERMINATED afterwards with its _cleanup task made
\* and not yet run, its entry is still in the table with the request it
\* stored, and the challenge handler found both: with credentials for the
\* realm and a supported algorithm, the re-issue of that request was made
\* from that transaction.
C39_ChallengeHandlerFindsTransaction ==
    [][\A p \in ChallengesTaken :
         (txs[p[1]].kind = "NON_INVITE_CLIENT" /\ Handled(p[2]))
         => LET o == p[1] IN
            /\ txs'[o].state = "TERMINATED"
            /\ txs'[o].cleanups > 0
            /\ Lookup(table', txs[o].branch) = o
            /\ txs'[o].request # NoMsg
            /\ txs'[o].request = txs[o].request
            /\ (p[2].realm \in credentials /\ p[2].algorithm \in Supported)
               => \E n \in Made :
                     /\ txs'[n].origin = o
                     /\ txs'[n].request.method = txs[o].request.method
                     /\ txs'[n].request.callId = txs[o].request.callId]_vars

\* A REGISTER or OPTIONS was challenged: its transaction is TERMINATED and in
\* the table, its _cleanup task has not run, and the re-issue made from it is
\* in the table too.
C39_Witness ==
    \E o \in Objects :
        /\ txs[o].kind = "NON_INVITE_CLIENT"
        /\ txs[o].state = "TERMINATED"
        /\ txs[o].cleanups > 0
        /\ txs[o].nfinal = 1
        /\ InTable(o)
        /\ \E n \in ReissuesOf(o) : InTable(n) /\ txs[n].state = "TRYING"

\* ------------------------------------------------------------------ C40
\* C40: in a step that begins no transaction (the dialog is not made anew by
\* create_dialog_from_request), a dialog that is TERMINATED stays in the
\* dialog table and stays TERMINATED: no update_dialog_from_response and no
\* terminate_dialog gives it another state.
C40_TerminatedDialogAbsorbing ==
    [][Len(txs') = Len(txs) =>
         \A d \in DOMAIN dialogs :
            dialogs[d].state = "TERMINATED"
            => d \in DOMAIN dialogs' /\ dialogs'[d].state = "TERMINATED"]_vars

====
